---- MODULE Spec2Model ----
(***************************************************************************)
(* Model of the shared core of the Midgard map tools: the routing engine   *)
(* (shortest_path over the adjacency view built by prepare_graph) and the  *)
(* trip simulator (TravelSession), both of src/travel_gui.py.              *)
(*                                                                         *)
(* Numbers.  Python floats are modelled as exact fixed-point integers:     *)
(*   - distances (km) in thousandths of a km:      50 km    = 50000        *)
(*   - difficulty multipliers in hundredths:       0.85     = 85           *)
(*   - speeds (km/h) in tenths:                    4.5 km/h = 45           *)
(*   - hours as whole hours                                                *)
(* so speed * hours * difficulty is a distance in thousandths of a km and  *)
(* distance * difficulty is a weighted cost in units of 1/100000 km.       *)
(*                                                                         *)
(* JSON objects (raw nodes, raw edges, attribute bags) are TLA+ functions  *)
(* from key strings to values, so that "key in attrs" is                   *)
(* key \in DOMAIN attrs.  A JSON scalar that the code hands to float() is  *)
(* [num |-> n] for a number and [text |-> s] for a non-numeric string.     *)
(*                                                                         *)
(* None and the empty string are the two falsy values `not x` treats as    *)
(* "unset"; node identifiers are non-empty strings.                        *)
(***************************************************************************)
EXTENDS Integers, Sequences, FiniteSets, TLC

VARIABLES
    nodes,              \* TravelSession.nodes: the ids of the node collection
    adjacency,          \* TravelSession.adjacency: id -> list of <<neighbour, attrs>>
    start_city,         \* TravelSession.start_city
    destination_city,   \* TravelSession.destination_city
    current_city,       \* TravelSession.current_city
    active_leg,         \* TravelSession.active_leg (NoLeg or an ActiveLeg record)
    day,                \* TravelSession.day
    total_traveled_km,  \* TravelSession.total_traveled_km
    log,                \* TravelSession.log
    last,               \* the last call of the session: what it raised or returned
    route,              \* the last shortest_path call: arguments and outcome
    store,              \* the graph store of an editing tool (Graph, GraphData, GraphState)
    loading             \* a document and the loader applied to it, with the outcome

vars == <<nodes, adjacency, start_city, destination_city, current_city,
          active_leg, day, total_traveled_km, log, last, route, store, loading>>

session == <<start_city, destination_city, current_city, active_leg, day,
             total_traveled_km, log>>

-----------------------------------------------------------------------------
(* Values *)

None == "<None>"
Empty == ""

Truthy(x) == x # None /\ x # Empty

Km(n) == n * 1000

\* The order Python gives to the node ids used here (str comparison).
IdOrder ==
    <<"A", "B", "C", "D", "Fjellhaven", "Isenfjord", "Oakheart", "Rivermeet",
      "Stormwatch Keep", "Thornwell", "Valstaad", "Z">>

Rank(n) == CHOOSE i \in 1..Len(IdOrder) : IdOrder[i] = n

Num(n) == [num |-> n]

Text(s) == [text |-> s]

\* float(x): a number converts, a non-numeric string raises ValueError.
FloatRaises(x) == "num" \notin DOMAIN x

Float(x) == x.num

\* dict.get(key, default)
Get(d, key, default) == IF key \in DOMAIN d THEN d[key] ELSE default

-----------------------------------------------------------------------------
(* Program constants *)

SPEEDS_KMH ==
    [foot |-> 45, horse |-> 70, wagon |-> 50, pack_lizard |-> 60, barge |-> 60,
     river_boat |-> 90, row |-> 55, sail |-> 120, knarr |-> 100]

ROUTE_DIFFICULTY ==
    [road |-> 100, trail |-> 85, mountain_pass |-> 70, shore |-> 100, sea |-> 100]

speed_for_mode(mode) == Get(SPEEDS_KMH, mode, 45)

difficulty_raises(attrs) ==
    IF "difficulty_factor" \in DOMAIN attrs
    THEN FloatRaises(attrs["difficulty_factor"])
    ELSE IF "difficulty_modifier" \in DOMAIN attrs
         THEN FloatRaises(attrs["difficulty_modifier"])
         ELSE FALSE

\* difficulty_modifier is looked up before difficulty_factor
difficulty_modifier_first(attrs) ==
    IF "difficulty_modifier" \in DOMAIN attrs
    THEN Float(attrs["difficulty_modifier"])
    ELSE IF "difficulty_factor" \in DOMAIN attrs
         THEN Float(attrs["difficulty_factor"])
         ELSE Get(ROUTE_DIFFICULTY, Get(attrs, "route_type", None), 100)

difficulty_for_edge(attrs) ==
    IF "difficulty_factor" \in DOMAIN attrs
    THEN Float(attrs["difficulty_factor"])
    ELSE IF "difficulty_modifier" \in DOMAIN attrs
         THEN Float(attrs["difficulty_modifier"])
         ELSE Get(ROUTE_DIFFICULTY, Get(attrs, "route_type", None), 100)

-----------------------------------------------------------------------------
(* prepare_graph *)

EndpointKeys == {"nodes", "source", "target"}

HasPair(raw_edge) == "nodes" \in DOMAIN raw_edge /\ Len(raw_edge["nodes"]) = 2

HasSourceTarget(raw_edge) ==
    "source" \in DOMAIN raw_edge /\ "target" \in DOMAIN raw_edge

EdgeMalformed(raw_edge) == ~HasPair(raw_edge) /\ ~HasSourceTarget(raw_edge)

EdgeEnds(raw_edge) ==
    IF HasPair(raw_edge)
    THEN <<raw_edge["nodes"][1], raw_edge["nodes"][2]>>
    ELSE <<raw_edge["source"], raw_edge["target"]>>

\* a.get(k1) or a.get(k2) or 0.0 on numbers: 0 and a missing key are falsy.
EdgeDistance(edge_attrs) ==
    IF Get(edge_attrs, "approx_distance_km", 0) # 0
    THEN edge_attrs["approx_distance_km"]
    ELSE IF Get(edge_attrs, "distance_km", 0) # 0
         THEN edge_attrs["distance_km"]
         ELSE 0

EdgeAttrs(raw_edge) ==
    LET keys == (DOMAIN raw_edge \ EndpointKeys) \cup {"approx_distance_km"}
        bare == [k \in DOMAIN raw_edge \ EndpointKeys |-> raw_edge[k]]
    IN  [k \in keys |-> IF k = "approx_distance_km" THEN EdgeDistance(bare)
                        ELSE raw_edge[k]]

\* adjacency[k].append(item) on a defaultdict(list)
AdjAppend(adj, k, item) ==
    IF k \in DOMAIN adj
    THEN [adj EXCEPT ![k] = Append(@, item)]
    ELSE [x \in DOMAIN adj \cup {k} |-> IF x = k THEN <<item>> ELSE adj[x]]

RECURSIVE BuildAdjacency(_, _, _)
BuildAdjacency(edges, i, adj) ==
    IF i > Len(edges) THEN adj
    ELSE LET ends == EdgeEnds(edges[i])
             attrs == EdgeAttrs(edges[i])
             adj1 == AdjAppend(adj, ends[1], <<ends[2], attrs>>)
             adj2 == AdjAppend(adj1, ends[2], <<ends[1], attrs>>)
         IN  BuildAdjacency(edges, i + 1, adj2)

EmptyAdjacency == [x \in {} |-> <<>>]

prepare_graph(data) ==
    IF \E i \in 1..Len(data.edges) : EdgeMalformed(data.edges[i])
    THEN [raised |-> "ValueError", nodes |-> {}, adjacency |-> EmptyAdjacency]
    ELSE [raised |-> "",
          nodes |-> {data.nodes[i]["id"] : i \in 1..Len(data.nodes)},
          adjacency |-> BuildAdjacency(data.edges, 1, EmptyAdjacency)]

\* adjacency.get(node, [])
Neighbours(adj, node) == IF node \in DOMAIN adj THEN adj[node] ELSE <<>>

\* adjacency[node] on the defaultdict: a missing key is inserted with an
\* empty list
AfterSubscript(adj, node) ==
    [k \in DOMAIN adj \cup {node} |-> IF k \in DOMAIN adj THEN adj[k] ELSE <<>>]

\* The adjacency view after adjacency.get(node, []): get inserts no key.
AfterGet(adj, node) == adj

-----------------------------------------------------------------------------
(* shortest_path *)

\* the path is handed back as it was collected, from dest to start
ReturnedUnreversed(path, total_distance, weighted) ==
    [raised |-> "", path |-> [i \in 1..Len(path) |-> path[Len(path) + 1 - i]],
     total_distance |-> total_distance, weighted |-> weighted]

Returned(path, total_distance, weighted) ==
    [raised |-> "", path |-> path, total_distance |-> total_distance,
     weighted |-> weighted]

\* The call does not return: an exception propagates ("ValueError"), or the
\* loop does not come to an end ("Diverges").
NoReturn(why) ==
    [raised |-> why, path |-> <<>>, total_distance |-> 0, weighted |-> 0]

\* d[k] = v on a dict
Put(d, k, v) == [x \in DOMAIN d \cup {k} |-> IF x = k THEN v ELSE d[x]]

\* Tuple order of the heap entries (cost, node).
HeapLE(t, u) == t[1] < u[1] \/ (t[1] = u[1] /\ Rank(t[2]) <= Rank(u[2]))

\* heappop returns the least entry; entries are pairwise different because a
\* node is pushed only with a cost strictly below its previous one.
HeapMin(heap) == CHOOSE t \in heap : \A u \in heap : HeapLE(t, u)

ImprovesOnlyUnseen(new_cost, dist, neigh) == neigh \notin DOMAIN dist

\* The strict-improvement test of the relaxation.
Improves(new_cost, dist, neigh) ==
    neigh \notin DOMAIN dist \/ new_cost < dist[neigh]

\* The for loop over adjacency.get(node, []), from entry i on.
RECURSIVE Relax(_, _, _, _, _)
Relax(entries, i, cost, node, s) ==
    IF i > Len(entries) THEN s
    ELSE LET neigh == entries[i][1]
             attrs == entries[i][2]
         IN  IF difficulty_raises(attrs) THEN [s EXCEPT !.raised = "ValueError"]
             ELSE LET base == Get(attrs, "approx_distance_km", 0)
                      weight == base * difficulty_for_edge(attrs)
                      new_cost == cost + weight
                  IN  IF Improves(new_cost, s.dist, neigh)
                      THEN Relax(entries, i + 1, cost, node,
                                 [s EXCEPT !.dist = Put(@, neigh, new_cost),
                                           !.prev = Put(@, neigh, node),
                                           !.heap = @ \cup {<<new_cost, neigh>>}])
                      ELSE Relax(entries, i + 1, cost, node, s)

\* Directed entries of the adjacency view.
RECURSIVE EntryCount(_, _)
EntryCount(adj, keys) ==
    IF keys = {} THEN 0
    ELSE LET k == CHOOSE x \in keys : TRUE
         IN  Len(adj[k]) + EntryCount(adj, keys \ {k})

\* With weights >= 0 every node is expanded at most once, so the loop pops at
\* most 1 + EntryCount entries; a search that pops more is descending along a
\* negative edge, which the undirected view offers in both directions.
PopBound(adj) == 2 * (1 + EntryCount(adj, DOMAIN adj))

\* The while loop over the heap; pops counts the iterations left.
RECURSIVE Search(_, _, _, _)
Search(adj, dest, s, pops) ==
    IF s.heap = {} THEN s
    ELSE IF pops = 0 THEN [s EXCEPT !.raised = "Diverges"]
    ELSE LET top == HeapMin(s.heap)
             cost == top[1]
             node == top[2]
             popped == [s EXCEPT !.heap = @ \ {top}]
         IN  IF node = dest THEN popped
             ELSE IF cost > s.dist[node] THEN Search(adj, dest, popped, pops - 1)
             ELSE LET relaxed == Relax(Neighbours(adj, node), 1, cost, node, popped)
                  IN  IF relaxed.raised # "" THEN relaxed
                      ELSE Search(adj, dest, relaxed, pops - 1)

\* The base distance the reconstruction adds for the step prev_node -> cur:
\* that of the first entry of prev_node's list that leads to cur.
RECURSIVE StepDistance(_, _, _)
StepDistance(entries, i, cur) ==
    IF i > Len(entries) THEN 0
    ELSE IF entries[i][1] = cur
         THEN Get(entries[i][2], "approx_distance_km", 0)
         ELSE StepDistance(entries, i + 1, cur)

\* The reconstruction loop; seen holds the nodes already appended, and coming
\* back to one of them means the loop never reaches start.
RECURSIVE Reconstruct(_, _, _, _, _, _, _)
Reconstruct(adj, start, s, cur, path, total_distance, seen) ==
    IF cur = start THEN Returned(<<start>> \o path, total_distance, s.dist[path[Len(path)]])
    ELSE IF cur \in seen THEN NoReturn("Diverges")
    ELSE LET prev_node == s.prev[cur]
         IN  Reconstruct(adj, start, s, prev_node, <<cur>> \o path,
                         total_distance + StepDistance(Neighbours(adj, prev_node), 1, cur),
                         seen \cup {cur})

\* return [], 0.0, 0.0
NoPath == Returned(<<>>, 0, 0)

SameNodeEmpty(start) == NoPath

\* return [start], 0.0, 0.0
SameNode(start) == Returned(<<start>>, 0, 0)

shortest_path(adj, start, dest) ==
    IF ~Truthy(start) \/ ~Truthy(dest) THEN NoPath
    ELSE IF start = dest THEN SameNode(start)
    ELSE LET init == [dist |-> [x \in {start} |-> 0],
                      prev |-> [x \in {} |-> None],
                      heap |-> {<<0, start>>},
                      raised |-> ""]
             s == Search(adj, dest, init, PopBound(adj))
         IN  IF s.raised # "" THEN NoReturn(s.raised)
             ELSE IF dest \notin DOMAIN s.dist THEN NoPath
             ELSE Reconstruct(adj, start, s, dest, <<>>, 0, {})

-----------------------------------------------------------------------------
(* Graph documents the tools read (the JSON handed to prepare_graph) *)

MaxEdges == 3

Road(a, b, km) ==
    [nodes |-> <<a, b>>, undirected |-> TRUE, route_type |-> "road",
     approx_distance_km |-> Km(km)]

\* Raw edges of the routing documents: the line A-B-C-D, a shortcut A-C, the
\* B-C edge at difficulty_factor 0.5, a second A-B edge in source/target form
\* that is shorter and easier, an edge with a difficulty that is no number,
\* an edge with a negative difficulty and the legacy distance key, and a
\* self-loop of length zero.
RouteEdges ==
    << Road("A", "B", 10),
       Road("B", "C", 10),
       Road("C", "D", 10),
       Road("A", "C", 30),
       [nodes |-> <<"B", "C">>, undirected |-> TRUE, route_type |-> "road",
        approx_distance_km |-> Km(10), difficulty_factor |-> Num(50)],
       [source |-> "B", target |-> "A", route_type |-> "trail",
        approx_distance_km |-> Km(8), difficulty_modifier |-> Num(50)],
       [nodes |-> <<"A", "C">>, undirected |-> TRUE,
        approx_distance_km |-> Km(5), difficulty_factor |-> Text("steep")],
       [nodes |-> <<"C", "B">>, undirected |-> FALSE, route_type |-> "sea",
        distance_km |-> Km(5), difficulty_factor |-> Num(-100)],
       [nodes |-> <<"A", "A">>, undirected |-> TRUE, route_type |-> "shore"] >>

NodeList(ids) == [i \in 1..Len(ids) |-> [id |-> ids[i]]]

\* Node lists of the routing documents: every endpoint is declared.
RouteNodeLists == {NodeList(<<"A", "B", "C", "D">>)}

\* The indices of set chosen, in increasing order.
RECURSIVE Ascending(_)
Ascending(chosen) ==
    IF chosen = {} THEN <<>>
    ELSE LET m == CHOOSE x \in chosen : \A y \in chosen : y <= x
         IN  Append(Ascending(chosen \ {m}), m)

Reversed(seq) == [i \in 1..Len(seq) |-> seq[Len(seq) + 1 - i]]

\* Edge lists of a document: at most `most` different raw edges of the
\* pool, listed in the pool's order or in the opposite order.
EdgeLists(pool, most) ==
    LET picks == {c \in SUBSET (1..Len(pool)) : Cardinality(c) <= most}
    IN  {Ascending(c) : c \in picks} \cup {Reversed(Ascending(c)) : c \in picks}

Document(node_list, pool, choice) ==
    [nodes |-> node_list, edges |-> [i \in DOMAIN choice |-> pool[choice[i]]]]

RouteDocuments ==
    {Document(nl, RouteEdges, c) : nl \in RouteNodeLists, c \in EdgeLists(RouteEdges, MaxEdges)}

\* Arguments of shortest_path: nodes, an id no document holds, and unset.
RouteInputs == {"A", "B", "C", "D", "Z", None, Empty}

-----------------------------------------------------------------------------
(* State *)

NoLeg == [origin |-> None]

\* what a call that raised, or that returns None, hands back
NoResult == [day |-> None]

NoCall == [op |-> "none", raised |-> "", result |-> NoResult]

SessionInit ==
    /\ start_city = None
    /\ destination_city = None
    /\ current_city = None
    /\ active_leg = NoLeg
    /\ day = 0
    /\ total_traveled_km = 0
    /\ log = <<>>
    /\ last = NoCall

\* No editing tool runs and no document is being loaded.
NoStore == [kind |-> "none"]

NoLoading == [loader |-> "none"]

StoreIdle == store = NoStore /\ loading = NoLoading

GraphInit(documents) ==
    \E data \in documents :
        LET g == prepare_graph(data)
        IN  /\ g.raised = ""
            /\ nodes = g.nodes
            /\ adjacency = g.adjacency

-----------------------------------------------------------------------------
(* Routing: shortest_path applied to the loaded adjacency view *)

\* The adjacency view after shortest_path.  The loops read it with
\* adjacency.get(node, []) for the nodes popped; the start is the only one
\* of them that need not be a key, every other was pushed as a neighbour of
\* an entry, and prepare_graph lists an edge under both of its endpoints.
AfterSearch(adj, start, dest) ==
    IF ~Truthy(start) \/ ~Truthy(dest) \/ start = dest
    THEN adj
    ELSE AfterGet(adj, start)

\* The arguments are drawn when the behaviour starts; the call applies
\* shortest_path to them.
ShortestPathCall ==
    /\ ~route.called
    /\ route' = [called |-> TRUE, start |-> route.start, dest |-> route.dest,
                 result |-> shortest_path(adjacency, route.start, route.dest)]
    /\ adjacency' = AfterSearch(adjacency, route.start, route.dest)
    /\ UNCHANGED <<nodes, session, last, store, loading>>

RouteInit ==
    /\ GraphInit(RouteDocuments)
    /\ SessionInit
    /\ StoreIdle
    /\ \E start \in RouteInputs, dest \in RouteInputs :
           route = [called |-> FALSE, start |-> start, dest |-> dest]

RouteNext == ShortestPathCall

RouteSpec == RouteInit /\ [][RouteNext]_vars

-----------------------------------------------------------------------------
(* TravelSession *)

MaxDay == 2

Abs(x) == IF x < 0 THEN -x ELSE x

Max(a, b) == IF a >= b THEN a ELSE b

Min(a, b) == IF a <= b THEN a ELSE b

\* math.isclose(a, b): abs(a - b) <= 1e-09 * max(abs(a), abs(b))
IsClose(a, b) == Abs(a - b) <= Max(Abs(a), Abs(b)) \div 1000000000

\* ActiveLeg.remaining_km
remaining_km(leg) == Max(0, leg.distance_km - leg.traveled_km)

HasLeg == active_leg # NoLeg

\* a current city the node collection does not hold has no routes
available_routes_declared ==
    IF current_city \notin nodes THEN <<>> ELSE Neighbours(adjacency, current_city)

\* TravelSession.available_routes
available_routes ==
    IF ~Truthy(current_city) THEN <<>> ELSE Neighbours(adjacency, current_city)

\* The adjacency view after available_routes: its one lookup is a get.
AfterRoutes ==
    IF ~Truthy(current_city) THEN adjacency ELSE AfterGet(adjacency, current_city)

\* {neighbor: attrs for neighbor, attrs in routes}: a later entry for the
\* same neighbour replaces an earlier one.
RouteOptions(routes) ==
    [n \in {routes[i][1] : i \in 1..Len(routes)} |->
        LET latest == CHOOSE i \in 1..Len(routes) :
                          /\ routes[i][1] = n
                          /\ \A j \in 1..Len(routes) : routes[j][1] = n => j <= i
        IN  routes[latest][2]]

\* a call that raises writes the error to the log
FailsLogged(call, why) ==
    /\ last' = [call EXCEPT !.raised = why]
    /\ log' = Append(log, [kind |-> why])
    /\ UNCHANGED <<nodes, adjacency, start_city, destination_city, current_city,
                   active_leg, day, total_traveled_km, route>>

\* A call that raises and leaves every field of the session as it was.
Fails(call, why) ==
    /\ last' = [call EXCEPT !.raised = why]
    /\ UNCHANGED <<nodes, adjacency, session, route>>

ResetFieldsKeepLeg(start, destination) ==
    /\ start_city' = start
    /\ destination_city' = destination
    /\ current_city' = start
    /\ active_leg' = active_leg
    /\ day' = 0
    /\ total_traveled_km' = 0
    /\ log' = <<[kind |-> "Trip begins", at |-> start, to |-> destination]>>

\* the assignments of a reset_trip that passed the check
ResetFields(start, destination) ==
    /\ start_city' = start
    /\ destination_city' = destination
    /\ current_city' = start
    /\ active_leg' = NoLeg
    /\ day' = 0
    /\ total_traveled_km' = 0
    /\ log' = <<[kind |-> "Trip begins", at |-> start, to |-> destination]>>

UnknownStartOnly(start, destination) == start \notin nodes

\* start not in self.nodes or destination not in self.nodes
UnknownNode(start, destination) == start \notin nodes \/ destination \notin nodes

\* TravelSession.reset_trip; UnknownNode is its ValueError
reset_trip(start, destination) ==
    LET call == [op |-> "reset_trip", raised |-> "", result |-> NoResult]
    IN  IF UnknownNode(start, destination)
        THEN Fails(call, "UnknownNode")
        ELSE /\ ResetFields(start, destination)
             /\ last' = call
             /\ UNCHANGED <<nodes, adjacency, route>>

\* the leg is created as if it set out from its destination
NewLegAtDestination(destination, attrs) ==
    [origin |-> destination, destination |-> destination, attrs |-> attrs,
     distance_km |-> Get(attrs, "approx_distance_km", 0), traveled_km |-> 0]

NewLeg(destination, attrs) ==
    [origin |-> current_city, destination |-> destination, attrs |-> attrs,
     distance_km |-> Get(attrs, "approx_distance_km", 0), traveled_km |-> 0]

Departure(destination, attrs) ==
    [kind |-> "Departed", at |-> current_city, to |-> destination,
     distance_km |-> Get(attrs, "approx_distance_km", 0),
     via |-> Get(attrs, "route_type", "route")]

StartLegErrorLocationFirst(destination) ==
    IF destination = current_city THEN "SameLocation"
    ELSE IF HasLeg THEN "AlreadyTraveling"
    ELSE IF destination \notin DOMAIN RouteOptions(available_routes)
         THEN "NoSuchRoute"
         ELSE ""

\* The checks of start_leg in their order: AlreadyTraveling is its
\* RuntimeError, SameLocation and NoSuchRoute its two ValueErrors.
StartLegError(destination) ==
    IF HasLeg THEN "AlreadyTraveling"
    ELSE IF destination = current_city THEN "SameLocation"
    ELSE IF destination \notin DOMAIN RouteOptions(available_routes)
         THEN "NoSuchRoute"
         ELSE ""

\* TravelSession.start_leg; the two checks that come first raise before
\* available_routes is called.
start_leg(destination) ==
    LET call == [op |-> "start_leg", raised |-> "", result |-> NoResult]
        options == RouteOptions(available_routes)
        error == StartLegError(destination)
    IN  IF error \in {"AlreadyTraveling", "SameLocation"}
        THEN Fails(call, error)
        ELSE IF error # ""
        THEN /\ last' = [call EXCEPT !.raised = error]
             /\ adjacency' = AfterRoutes
             /\ UNCHANGED <<nodes, session, route>>
        ELSE /\ active_leg' = NewLeg(destination, options[destination])
             /\ log' = Append(log, Departure(destination, options[destination]))
             /\ last' = [call EXCEPT !.result = active_leg']
             /\ adjacency' = AfterRoutes
             /\ UNCHANGED <<nodes, start_city, destination_city,
                            current_city, day, total_traveled_km, route>>

\* min(potential_km, remaining)
Covered(leg, mode, hours) ==
    Min(speed_for_mode(mode) * hours * difficulty_for_edge(leg.attrs),
        remaining_km(leg))

\* the leg counts as finished only once it has been overshot
ReachedDestinationBeyond(leg) == leg.traveled_km > leg.distance_km

\* math.isclose(traveled_km, distance_km) or traveled_km >= distance_km
ReachedDestination(leg) ==
    IsClose(leg.traveled_km, leg.distance_km) \/ leg.traveled_km >= leg.distance_km

NextDayIfProgress ==
    IF ~difficulty_raises(active_leg.attrs) /\ difficulty_for_edge(active_leg.attrs) = 0
    THEN day
    ELSE day + 1

\* self.day += 1
NextDay == day + 1

DayEntry(leg, mode, hours, traveled) ==
    [kind |-> "Day", day |-> NextDay, mode |-> mode, hours |-> hours,
     speed |-> speed_for_mode(mode), difficulty |-> difficulty_for_edge(leg.attrs),
     covered |-> traveled]

Arrival(city) == [kind |-> "Arrived", at |-> city]

\* TravelSession.travel_day; NoActiveLeg is its RuntimeError, NonPositiveHours
\* its ValueError.  self.day += 1 comes before difficulty_for_edge, whose
\* float() raises on a difficulty that is no number.
travel_day(mode, hours) ==
    LET call == [op |-> "travel_day", raised |-> "", result |-> NoResult]
    IN  IF ~HasLeg THEN Fails(call, "NoActiveLeg")
        ELSE IF hours <= 0 THEN Fails(call, "NonPositiveHours")
        ELSE /\ day < MaxDay
             /\ day' = NextDay
             /\ IF difficulty_raises(active_leg.attrs)
                THEN /\ last' = [call EXCEPT !.raised = "ValueError"]
                     /\ UNCHANGED <<nodes, adjacency, start_city, destination_city,
                                    current_city, active_leg, total_traveled_km,
                                    log, route>>
                ELSE LET traveled == Covered(active_leg, mode, hours)
                         leg == [active_leg EXCEPT !.traveled_km = @ + traveled]
                         arrived == ReachedDestination(leg)
                         entry == DayEntry(active_leg, mode, hours, traveled)
                     IN  /\ total_traveled_km' = total_traveled_km + traveled
                         /\ active_leg' = IF arrived THEN NoLeg ELSE leg
                         /\ current_city' = IF arrived THEN leg.destination
                                            ELSE current_city
                         /\ log' = IF arrived
                                   THEN log \o <<entry, Arrival(leg.destination)>>
                                   ELSE Append(log, entry)
                         /\ last' = [call EXCEPT !.result =
                                [day |-> NextDay,
                                 traveled_km |-> traveled,
                                 remaining_leg_km |->
                                     IF arrived THEN 0 ELSE remaining_km(leg),
                                 at_city |-> current_city',
                                 reached_destination |-> arrived]]
                         /\ UNCHANGED <<nodes, adjacency, start_city,
                                        destination_city, route>>

\* Raw edges of the trip documents: a 50 km road, a trail at difficulty_factor
\* 0.5, an edge whose difficulty is no number, an edge with a negative
\* difficulty in source/target form, an edge without a distance to a node the
\* node list does not declare, and a second A-B edge at difficulty 0.
MaxTripEdges == 2

TripEdges ==
    << Road("A", "B", 50),
       [nodes |-> <<"B", "C">>, undirected |-> TRUE, route_type |-> "trail",
        approx_distance_km |-> Km(10), difficulty_factor |-> Num(50)],
       [nodes |-> <<"A", "C">>, undirected |-> TRUE, route_type |-> "road",
        approx_distance_km |-> Km(20), difficulty_factor |-> Text("steep")],
       [source |-> "B", target |-> "C", route_type |-> "mountain_pass",
        approx_distance_km |-> Km(30), difficulty_modifier |-> Num(-50)],
       [nodes |-> <<"B", "D">>, undirected |-> TRUE, route_type |-> "shore"],
       [nodes |-> <<"B", "A">>, undirected |-> TRUE, route_type |-> "sea",
        approx_distance_km |-> Km(40), difficulty_factor |-> Num(0)] >>

\* Node lists of the trip documents: D is an endpoint no node list declares.
TripNodeLists == {NodeList(<<"A", "B", "C">>)}

TripDocuments ==
    {Document(nl, TripEdges, c) : nl \in TripNodeLists, c \in EdgeLists(TripEdges, MaxTripEdges)}

\* Arguments of the calls: declared nodes and the undeclared D; a mode with a
\* table entry and an unknown one; hours below, at and above zero.
ResetInputs == {"A", "B", "D"}

LegInputs == {"A", "B", "C", "D"}

ModeInputs == {"foot", "camel"}

HourInputs == {-1, 0, 8, 100}

ResetTrip ==
    /\ \E start \in ResetInputs, destination \in ResetInputs :
           reset_trip(start, destination)
    /\ UNCHANGED <<store, loading>>

StartLeg ==
    /\ \E destination \in LegInputs : start_leg(destination)
    /\ UNCHANGED <<store, loading>>

TravelDay ==
    /\ \E mode \in ModeInputs, hours \in HourInputs : travel_day(mode, hours)
    /\ UNCHANGED <<store, loading>>

Init ==
    /\ GraphInit(TripDocuments)
    /\ SessionInit
    /\ StoreIdle
    /\ route = [called |-> FALSE, start |-> None, dest |-> None]

Next == ResetTrip \/ StartLeg \/ TravelDay

Spec == Init /\ [][Next]_vars

-----------------------------------------------------------------------------
(* createGraph.py: Graph *)

EmptyDict == [x \in {} |-> x]

\* d.update(e) and {**d, **e}: the keys of e win
Update(d, e) ==
    [k \in DOMAIN d \cup DOMAIN e |-> IF k \in DOMAIN e THEN e[k] ELSE d[k]]

\* {k: v for k, v in d.items() if k not in keys}
Without(d, keys) == [k \in DOMAIN d \ keys |-> d[k]]

\* tuple(sorted((a, b))) on node ids
SortedPair(a, b) == IF Rank(a) <= Rank(b) THEN <<a, b>> ELSE <<b, a>>

\* Graph.__init__
EmptyGraph == [nodes |-> EmptyDict, edges |-> EmptyDict]

\* payload = {"id": node_id, **attrs}
NodePayload(node_id, attrs) == Update([id |-> node_id], attrs)

\* dict.setdefault: an entry the key already has is kept as it is
KeepEntry(d, k, payload) == IF k \in DOMAIN d THEN d ELSE Put(d, k, payload)

\* dict.update on the stored entry of key k, or a new entry
MergeEntry(d, k, payload) ==
    Put(d, k, IF k \in DOMAIN d THEN Update(d[k], payload) ELSE payload)

\* an existing entry is replaced instead of updated
ReplaceEntry(d, k, payload) == Put(d, k, payload)

\* Graph.add_node
Graph_add_node(g, node_id, attrs) ==
    [g EXCEPT !.nodes = MergeEntry(g.nodes, node_id, NodePayload(node_id, attrs))]

\* only the source is looked up
MissingSource(g, source, target) == source \notin DOMAIN g.nodes

\* the guard of Graph.add_edge
MissingEndpoint(g, source, target) ==
    source \notin DOMAIN g.nodes \/ target \notin DOMAIN g.nodes

\* the edge key keeps the order of the arguments
EdgeKeyAsGiven(source, target) == <<source, target>>

\* key = tuple(sorted((source, target)))
EdgeKey(source, target) == SortedPair(source, target)

\* edge_payload = {"nodes": [key[0], key[1]], "undirected": True, **attrs}
EdgePayload(key, attrs) ==
    Update([nodes |-> <<key[1], key[2]>>, undirected |-> TRUE], attrs)

\* Graph.add_edge; MissingEndpoint is its ValueError
Graph_add_edge(g, source, target, attrs) ==
    IF MissingEndpoint(g, source, target)
    THEN [raised |-> "MissingEndpoint", graph |-> g]
    ELSE LET key == EdgeKey(source, target)
         IN  [raised |-> "",
              graph |-> [g EXCEPT !.edges =
                            MergeEntry(g.edges, key, EdgePayload(key, attrs))]]

PairLE(p, q) == Rank(p[1]) < Rank(q[1]) \/ (p[1] = q[1] /\ Rank(p[2]) <= Rank(q[2]))

\* sorted(keys) for a set of node ids
RECURSIVE SortedIds(_)
SortedIds(ids) ==
    IF ids = {} THEN <<>>
    ELSE LET m == CHOOSE x \in ids : \A y \in ids : Rank(x) <= Rank(y)
         IN  <<m>> \o SortedIds(ids \ {m})

\* sorted(keys) for a set of edge keys
RECURSIVE SortedPairs(_)
SortedPairs(keys) ==
    IF keys = {} THEN <<>>
    ELSE LET m == CHOOSE x \in keys : \A y \in keys : PairLE(x, y)
         IN  <<m>> \o SortedPairs(keys \ {m})

\* Graph.to_dict
Graph_to_dict(g) ==
    LET node_keys == SortedIds(DOMAIN g.nodes)
        edge_keys == SortedPairs(DOMAIN g.edges)
    IN  [nodes |-> [i \in DOMAIN node_keys |-> g.nodes[node_keys[i]]],
         edges |-> [i \in DOMAIN edge_keys |-> g.edges[edge_keys[i]]]]

\* the node loop of Graph.from_dict
RECURSIVE FromDictNodes(_, _, _)
FromDictNodes(raw_nodes, i, g) ==
    IF i > Len(raw_nodes) THEN g
    ELSE FromDictNodes(raw_nodes, i + 1,
             Graph_add_node(g, raw_nodes[i]["id"], Without(raw_nodes[i], {"id"})))

\* the edge loop of Graph.from_dict; MalformedEdge is its ValueError
RECURSIVE FromDictEdges(_, _, _)
FromDictEdges(raw_edges, i, g) ==
    IF i > Len(raw_edges) THEN [raised |-> "", graph |-> g]
    ELSE IF EdgeMalformed(raw_edges[i])
    THEN [raised |-> "MalformedEdge", graph |-> EmptyGraph]
    ELSE LET ends == EdgeEnds(raw_edges[i])
             added == Graph_add_edge(g, ends[1], ends[2],
                                     Without(raw_edges[i], EndpointKeys))
         IN  IF added.raised # ""
             THEN [raised |-> added.raised, graph |-> EmptyGraph]
             ELSE FromDictEdges(raw_edges, i + 1, added.graph)

\* Graph.from_dict
Graph_from_dict(data) ==
    FromDictEdges(data.edges, 1, FromDictNodes(data.nodes, 1, EmptyGraph))

-----------------------------------------------------------------------------
(* createGraph.py: build_midgard_graph *)

\* the add_node calls of build_midgard_graph, in order: the id and the
\* keyword arguments of each
MidgardNodes ==
    << [id |-> "Valstaad",
        kind |-> "port_city",
        region |-> "North Sea coast",
        population |-> 12000,
        is_port |-> TRUE,
        terrain |-> "coastal plains",
        notes |-> "Main northern trading hub with reliable shipyards."],
       [id |-> "Thornwell",
        kind |-> "market_town",
        region |-> "Heartland",
        population |-> 5500,
        is_port |-> FALSE,
        terrain |-> "farmland",
        notes |-> "Crossroads town with an annual horse fair."],
       [id |-> "Rivermeet",
        kind |-> "river_port",
        region |-> "Heartland",
        population |-> 4300,
        is_port |-> TRUE,
        terrain |-> "river valley",
        notes |-> "Barges change hands here; city has secure warehouses."],
       [id |-> "Fjellhaven",
        kind |-> "mountain_hold",
        region |-> "Frostspire Mountains",
        population |-> 2200,
        is_port |-> FALSE,
        terrain |-> "high mountains",
        notes |-> "Steep approach; pass closes after heavy snows."],
       [id |-> "Oakheart",
        kind |-> "forest_village",
        region |-> "Silverwood",
        population |-> 1300,
        is_port |-> FALSE,
        terrain |-> "dense forest",
        notes |-> "Woodcutters and rangers; frequent wolf sightings."],
       [id |-> "Stormwatch Keep",
        kind |-> "fortress",
        region |-> "Windshore Cliffs",
        population |-> 800,
        is_port |-> FALSE,
        terrain |-> "clifftop",
        notes |-> "Signal beacons mark safe coves during storms."],
       [id |-> "Isenfjord",
        kind |-> "fishing_hamlet",
        region |-> "Frozen Coast",
        population |-> 900,
        is_port |-> TRUE,
        terrain |-> "arctic shore",
        notes |-> "Sea ice common in late winter; small sheltered harbor."] >>

\* the add_edge calls of build_midgard_graph, in order: source, target and
\* the keyword arguments of each; the last one declares the connection of
\* the second once more, the other way round and with notes
MidgardEdges ==
    << [source |-> "Valstaad", target |-> "Thornwell",
        attrs |-> [route_type |-> "road",
                  approx_distance_km |-> 140,
                  surface |-> "paved",
                  terrain |-> "plains",
                  allowed_modes |-> <<"foot", "horse", "wagon">>,
                  tolls |-> FALSE,
                  typical_rest_stops |-> <<"Wayside Inn", "Red Ford">>]],
       [source |-> "Thornwell", target |-> "Rivermeet",
        attrs |-> [route_type |-> "road",
                  approx_distance_km |-> 60,
                  surface |-> "packed earth",
                  terrain |-> "farmland",
                  allowed_modes |-> <<"foot", "horse", "wagon">>,
                  tolls |-> FALSE,
                  hazards |-> <<"spring floods near the river">>]],
       [source |-> "Rivermeet", target |-> "Oakheart",
        attrs |-> [route_type |-> "trail",
                  approx_distance_km |-> 45,
                  surface |-> "forest path",
                  terrain |-> "forest",
                  allowed_modes |-> <<"foot", "horse">>,
                  tolls |-> FALSE,
                  hazards |-> <<"bandits near the old mill">>]],
       [source |-> "Thornwell", target |-> "Fjellhaven",
        attrs |-> [route_type |-> "mountain_pass",
                  approx_distance_km |-> 110,
                  surface |-> "stone and scree",
                  terrain |-> "mountain",
                  allowed_modes |-> <<"foot", "horse", "pack_lizard">>,
                  tolls |-> TRUE,
                  seasonal_availability |-> "closed after first heavy snow",
                  hazards |-> <<"rockfalls", "thin air">>]],
       [source |-> "Oakheart", target |-> "Stormwatch Keep",
        attrs |-> [route_type |-> "clifftop_track",
                  approx_distance_km |-> 70,
                  surface |-> "rocky",
                  terrain |-> "cliffs",
                  allowed_modes |-> <<"foot", "horse">>,
                  tolls |-> FALSE,
                  hazards |-> <<"high winds">>]],
       [source |-> "Rivermeet", target |-> "Valstaad",
        attrs |-> [route_type |-> "river",
                  approx_distance_km |-> 160,
                  current |-> "moderate",
                  terrain |-> "river",
                  allowed_modes |-> <<"barge", "river_boat">>,
                  requires_portage |-> FALSE,
                  notes |-> "Fast downstream, slower upstream; guarded stretches near Valstaad."]],
       [source |-> "Valstaad", target |-> "Isenfjord",
        attrs |-> [route_type |-> "sea_lane",
                  approx_distance_km |-> 320,
                  open_sea |-> TRUE,
                  along_shore |-> FALSE,
                  allowed_modes |-> <<"sail", "row", "knarr">>,
                  hazards |-> <<"squalls", "icebergs late winter">>,
                  preferred_weather |-> "calm seas"]],
       [source |-> "Valstaad", target |-> "Stormwatch Keep",
        attrs |-> [route_type |-> "sea_lane",
                  approx_distance_km |-> 85,
                  open_sea |-> FALSE,
                  along_shore |-> TRUE,
                  allowed_modes |-> <<"sail", "row">>,
                  hazards |-> <<"shoals near Beacon Point">>,
                  notes |-> "Faster in clear weather; beacon fires guide night approach."]],
       [source |-> "Stormwatch Keep", target |-> "Isenfjord",
        attrs |-> [route_type |-> "sea_lane",
                  approx_distance_km |-> 260,
                  open_sea |-> FALSE,
                  along_shore |-> TRUE,
                  allowed_modes |-> <<"sail", "row", "knarr">>,
                  hazards |-> <<"ice floes", "fog banks">>]],
       [source |-> "Rivermeet", target |-> "Thornwell",
        attrs |-> [route_type |-> "road",
                  approx_distance_km |-> 60,
                  surface |-> "packed earth",
                  terrain |-> "farmland",
                  allowed_modes |-> <<"foot", "horse", "wagon">>,
                  tolls |-> FALSE,
                  hazards |-> <<"spring floods near the river">>,
                  notes |-> "Defined separately in case travel modifiers differ upstream."]] >>

\* build_midgard_graph() and build_midgard_graph(base)
NoBase == [given |-> FALSE]

Base(g) == [given |-> TRUE, graph |-> g]

\* the add_node calls, from the i-th on
RECURSIVE BuildNodes(_, _, _)
BuildNodes(declared, i, g) ==
    IF i > Len(declared) THEN g
    ELSE BuildNodes(declared, i + 1,
             Graph_add_node(g, declared[i].id, Without(declared[i], {"id"})))

\* the add_edge calls, from the i-th on; a ValueError of add_edge ends the
\* build
RECURSIVE BuildEdges(_, _, _)
BuildEdges(declared, i, g) ==
    IF i > Len(declared) THEN [raised |-> "", graph |-> g]
    ELSE LET added == Graph_add_edge(g, declared[i].source, declared[i].target,
                                     declared[i].attrs)
         IN  IF added.raised # "" THEN added
             ELSE BuildEdges(declared, i + 1, added.graph)

\* build_midgard_graph: graph = base or Graph(), and a Graph is always true
build_midgard_graph(base) ==
    LET graph == IF base.given THEN base.graph ELSE EmptyGraph
    IN  BuildEdges(MidgardEdges, 1, BuildNodes(MidgardNodes, 1, graph))

\* main with --extend: the graph is read from the file, built upon and
\* returned for saving; data is the content of the file
main_extend(data) ==
    LET loaded == Graph_from_dict(data)
    IN  IF loaded.raised # "" THEN loaded
        ELSE build_midgard_graph(Base(loaded.graph))

-----------------------------------------------------------------------------
(* graph_editor.py: GraphData *)

\* A JSON true/false that the code hands to bool().
Flag(b) == [bool |-> b]

\* bool(x) of a JSON scalar: a number is true unless 0, a string unless empty
Bool(x) ==
    IF "bool" \in DOMAIN x THEN x.bool
    ELSE IF "num" \in DOMAIN x THEN x.num # 0
    ELSE x.text # ""

\* GraphData.empty
EmptyGraphData == [nodes |-> EmptyDict, edges |-> <<>>]

\* the attribute bag GraphData.load keeps for a raw node
LoadedNodeAttrs(raw_node) ==
    LET attrs == Without(raw_node, {"id"})
    IN  IF "is_port" \in DOMAIN attrs
        THEN [attrs EXCEPT !["is_port"] = Bool(@)]
        ELSE attrs

\* the node loop of GraphData.load: nodes[n["id"]] = attrs
RECURSIVE LoadNodes(_, _, _)
LoadNodes(raw_nodes, i, loaded) ==
    IF i > Len(raw_nodes) THEN loaded
    ELSE LoadNodes(raw_nodes, i + 1,
             Put(loaded, raw_nodes[i]["id"], LoadedNodeAttrs(raw_nodes[i])))

\* the index of the first edge of the list stored under the key of (a, b)
\* (GraphData.find_edge_index), 0 for None
find_edge_index(edges, a, b) ==
    LET same == {i \in 1..Len(edges) :
                    SortedPair(edges[i]["nodes"][1], edges[i]["nodes"][2])
                        = SortedPair(a, b)}
    IN  IF same = {} THEN 0 ELSE CHOOSE i \in same : \A j \in same : i <= j

\* edges[key] = edge on a dict whose values become the edge list: a key
\* already present keeps its place in the list
PutEdge(edges, key, edge) ==
    LET idx == find_edge_index(edges, key[1], key[2])
    IN  IF idx # 0 THEN [edges EXCEPT ![idx] = edge] ELSE Append(edges, edge)

\* {"nodes": [key[0], key[1]], **attrs}
EditorEdge(key, attrs) == Update([nodes |-> <<key[1], key[2]>>], attrs)

\* the edge loop of GraphData.load (the documents carry no allowed_modes)
RECURSIVE LoadEdges(_, _, _)
LoadEdges(raw_edges, i, loaded) ==
    IF i > Len(raw_edges) THEN [raised |-> "", edges |-> loaded]
    ELSE IF EdgeMalformed(raw_edges[i])
    THEN [raised |-> "MalformedEdge", edges |-> <<>>]
    ELSE LET ends == EdgeEnds(raw_edges[i])
             key == SortedPair(ends[1], ends[2])
             attrs == Without(raw_edges[i], EndpointKeys)
         IN  LoadEdges(raw_edges, i + 1, PutEdge(loaded, key, EditorEdge(key, attrs)))

\* GraphData.load, after json.load
GraphData_load(data) ==
    LET edges == LoadEdges(data.edges, 1, <<>>)
    IN  IF edges.raised # ""
        THEN [raised |-> edges.raised, graph |-> EmptyGraphData]
        ELSE [raised |-> "",
              graph |-> [nodes |-> LoadNodes(data.nodes, 1, EmptyDict),
                         edges |-> edges.edges]]

\* GraphData.save, before json.dump: the nodes by id, each with its id put
\* first, and the edge list as it is stored
GraphData_save(g) ==
    LET node_keys == SortedIds(DOMAIN g.nodes)
    IN  [nodes |-> [i \in DOMAIN node_keys |->
                       NodePayload(node_keys[i], g.nodes[node_keys[i]])],
         edges |-> g.edges]

\* GraphData.ensure_node
GraphData_ensure_node(g, node_id) ==
    IF node_id \in DOMAIN g.nodes THEN g
    ELSE [g EXCEPT !.nodes = Put(g.nodes, node_id, EmptyDict)]

\* GraphData.add_node: self.nodes[node_id] = attrs
GraphData_add_node(g, node_id, attrs) ==
    [g EXCEPT !.nodes = ReplaceEntry(g.nodes, node_id, attrs)]

\* only the first endpoint of the edge is compared
EdgeTouchesFirst(edge, node_id) ==
    "nodes" \in DOMAIN edge
    /\ Len(edge["nodes"]) > 0
    /\ edge["nodes"][1] = node_id

\* node_id in e.get("nodes", [])
EdgeTouches(edge, node_id) ==
    "nodes" \in DOMAIN edge
    /\ \E i \in 1..Len(edge["nodes"]) : edge["nodes"][i] = node_id

\* GraphData.remove_node
GraphData_remove_node(g, node_id) ==
    [nodes |-> Without(g.nodes, {node_id}),
     edges |-> SelectSeq(g.edges, LAMBDA e : ~EdgeTouches(e, node_id))]

\* GraphData.upsert_edge
GraphData_upsert_edge(g, a, b, attrs) ==
    LET key == SortedPair(a, b)
        edge == EditorEdge(key, attrs)
        existing_idx == find_edge_index(g.edges, a, b)
    IN  [g EXCEPT !.edges = IF existing_idx # 0
                            THEN [g.edges EXCEPT ![existing_idx] = edge]
                            ELSE Append(g.edges, edge)]

\* the stored endpoints are compared with (a, b) in the order given
GraphData_remove_edge_ordered(g, a, b) ==
    [g EXCEPT !.edges = SelectSeq(g.edges, LAMBDA e : e["nodes"] # <<a, b>>)]

\* GraphData.remove_edge
GraphData_remove_edge(g, a, b) ==
    [g EXCEPT !.edges =
        SelectSeq(g.edges,
                  LAMBDA e : SortedPair(e["nodes"][1], e["nodes"][2])
                                 # SortedPair(a, b))]

-----------------------------------------------------------------------------
(* map_graph_builder.py: GraphState *)

\* math.hypot on pixel offsets whose distance is a whole number
Hypot(dx, dy) ==
    LET n == dx * dx + dy * dy
    IN  CHOOSE r \in 0..n : r * r <= n /\ (r + 1) * (r + 1) > n

\* GraphState.__init__
EmptyGraphState(scale) == [nodes |-> EmptyDict, edges |-> EmptyDict, scale |-> scale]

\* the dataclass Node
Node(node_id, x, y) == [node_id |-> node_id, x |-> x, y |-> y]

\* GraphState.add_node
GraphState_add_node(gs, node_id, x, y) ==
    [gs EXCEPT !.nodes = ReplaceEntry(gs.nodes, node_id, Node(node_id, x, y))]

\* GraphState.remove_node
GraphState_remove_node(gs, node_id) ==
    [gs EXCEPT !.nodes = Without(gs.nodes, {node_id}),
               !.edges = Without(gs.edges,
                                 {k \in DOMAIN gs.edges : k[1] = node_id \/ k[2] = node_id})]

\* GraphState.upsert_edge; self.nodes[a] raises KeyError for an absent node
GraphState_upsert_edge(gs, a, b) ==
    IF a \notin DOMAIN gs.nodes \/ b \notin DOMAIN gs.nodes
    THEN [raised |-> "KeyError", graph |-> gs]
    ELSE LET key == SortedPair(a, b)
             pixel_d == Hypot(gs.nodes[a].x - gs.nodes[b].x,
                              gs.nodes[a].y - gs.nodes[b].y)
             edge == [a |-> key[1], b |-> key[2], pixel_distance |-> pixel_d,
                      distance |-> pixel_d * gs.scale]
         IN  [raised |-> "", graph |-> [gs EXCEPT !.edges = Put(gs.edges, key, edge)]]

\* round(x, 2): the distances of the model are whole numbers
Round2(x) == x

\* GraphState.to_json.  The written order is the insertion order of the two
\* dicts, which the store of the model does not keep: the entries are listed
\* by id and by key.
GraphState_to_json(gs) ==
    LET node_keys == SortedIds(DOMAIN gs.nodes)
        edge_keys == SortedPairs(DOMAIN gs.edges)
    IN  [nodes |-> [i \in DOMAIN node_keys |->
                       [id |-> gs.nodes[node_keys[i]].node_id,
                        pos_px |-> <<gs.nodes[node_keys[i]].x,
                                     gs.nodes[node_keys[i]].y>>]],
         edges |-> [i \in DOMAIN edge_keys |->
                       [nodes |-> <<gs.edges[edge_keys[i]].a, gs.edges[edge_keys[i]].b>>,
                        pixel_distance |-> Round2(gs.edges[edge_keys[i]].pixel_distance),
                        approx_distance_km |-> Round2(gs.edges[edge_keys[i]].distance),
                        undirected |-> TRUE]]]

\* node.get("pos_px") or node.get("pos") or [0, 0]
NodePos(raw_node) ==
    IF Get(raw_node, "pos_px", <<>>) # <<>> THEN raw_node["pos_px"]
    ELSE IF Get(raw_node, "pos", <<>>) # <<>> THEN raw_node["pos"]
    ELSE <<0, 0>>

\* the node loop of GraphState.from_json
RECURSIVE FromJsonNodes(_, _, _)
FromJsonNodes(raw_nodes, i, gs) ==
    IF i > Len(raw_nodes) THEN gs
    ELSE LET pos == NodePos(raw_nodes[i])
         IN  FromJsonNodes(raw_nodes, i + 1,
                 GraphState_add_node(gs, raw_nodes[i]["id"], pos[1], pos[2]))

\* gs.nodes.setdefault(a, Node(a, 0, 0))
SetDefaultNode(gs, a) ==
    IF a \in DOMAIN gs.nodes THEN gs
    ELSE [gs EXCEPT !.nodes = Put(gs.nodes, a, Node(a, 0, 0))]

\* the edge loop of GraphState.from_json: an edge without a two-element
\* "nodes" list is skipped
RECURSIVE FromJsonEdges(_, _, _)
FromJsonEdges(raw_edges, i, gs) ==
    IF i > Len(raw_edges) THEN gs
    ELSE IF ~HasPair(raw_edges[i]) THEN FromJsonEdges(raw_edges, i + 1, gs)
    ELSE LET a == raw_edges[i]["nodes"][1]
             b == raw_edges[i]["nodes"][2]
             stubbed == SetDefaultNode(SetDefaultNode(gs, a), b)
         IN  FromJsonEdges(raw_edges, i + 1, GraphState_upsert_edge(stubbed, a, b).graph)

\* GraphState.from_json
GraphState_from_json(data, scale) ==
    [raised |-> "",
     graph |-> FromJsonEdges(data.edges, 1,
                   FromJsonNodes(data.nodes, 1, EmptyGraphState(scale)))]

-----------------------------------------------------------------------------
(* visualize_graph.py: build_graph on a networkx Graph *)

\* nx.Graph.add_node(n, **attr): the attributes update the node's bag
Nx_add_node(G, n, attrs) == [G EXCEPT !.nodes = MergeEntry(G.nodes, n, attrs)]

\* nx.Graph.add_edge(u, v, **attr): absent endpoints become nodes, the
\* attributes update the bag of the undirected edge
Nx_add_edge(G, u, v, attrs) ==
    LET with_u == MergeEntry(G.nodes, u, EmptyDict)
        with_v == MergeEntry(with_u, v, EmptyDict)
    IN  [nodes |-> with_v, edges |-> MergeEntry(G.edges, SortedPair(u, v), attrs)]

RECURSIVE BuildGraphNodes(_, _, _)
BuildGraphNodes(raw_nodes, i, G) ==
    IF i > Len(raw_nodes) THEN G
    ELSE BuildGraphNodes(raw_nodes, i + 1,
             Nx_add_node(G, raw_nodes[i]["id"], raw_nodes[i]))

\* a, b = edge["nodes"]: KeyError without the key, ValueError when the list
\* has not two elements
RECURSIVE BuildGraphEdges(_, _, _)
BuildGraphEdges(raw_edges, i, G) ==
    IF i > Len(raw_edges) THEN [raised |-> "", graph |-> G]
    ELSE IF "nodes" \notin DOMAIN raw_edges[i]
    THEN [raised |-> "KeyError", graph |-> EmptyGraph]
    ELSE IF Len(raw_edges[i]["nodes"]) # 2
    THEN [raised |-> "ValueError", graph |-> EmptyGraph]
    ELSE BuildGraphEdges(raw_edges, i + 1,
             Nx_add_edge(G, raw_edges[i]["nodes"][1], raw_edges[i]["nodes"][2],
                         Without(raw_edges[i], {"nodes"})))

\* build_graph
build_graph(data) ==
    BuildGraphEdges(data.edges, 1, BuildGraphNodes(data.nodes, 1, EmptyGraph))

-----------------------------------------------------------------------------
(* The editing tools: one store each, loaded from a document and edited *)

MaxStoreEdges == 2

\* Raw nodes of the documents the editing tools read: A with an attribute, B
\* with a port flag given as a number and a map position, and A once more
\* without attributes.
StoreNodes ==
    << [id |-> "A", kind |-> "city"],
       [id |-> "B", is_port |-> Num(1), pos_px |-> <<3, 4>>],
       [id |-> "A"] >>

StoreNodeLists ==
    { <<>>,
      <<StoreNodes[1], StoreNodes[2]>>,
      <<StoreNodes[1], StoreNodes[2], StoreNodes[3]>> }

\* Raw edges of those documents: A-B in pair form, the same pair in
\* source/target form with other attributes, an edge to C, which no node list
\* declares, and an edge without endpoints.
StoreEdges ==
    << [nodes |-> <<"A", "B">>, route_type |-> "road"],
       [source |-> "B", target |-> "A", route_type |-> "trail", undirected |-> FALSE],
       [nodes |-> <<"C", "B">>, route_type |-> "road"],
       [route_type |-> "road"] >>

StoreDocuments ==
    {[nodes |-> nl, edges |-> [i \in DOMAIN c |-> StoreEdges[c[i]]]] :
        nl \in StoreNodeLists, c \in EdgeLists(StoreEdges, MaxStoreEdges)}

\* Arguments of the editing calls.
StoreIds == {"A", "B", "C"}

\* attribute bags for nodes; "id" is the key the node payload itself uses
NodeAttrPool == {EmptyDict, [kind |-> "city"], [id |-> "B"]}

EdgeAttrPool ==
    {[route_type |-> "road"], [route_type |-> "trail", undirected |-> FALSE]}

\* endpoint arguments: a pair in both orders, a pair given unsorted, a loop
EdgePairPool == {<<"A", "B">>, <<"B", "A">>, <<"C", "B">>, <<"A", "A">>}

\* pixel positions at whole-number distances of each other
PositionPool == {<<0, 0>>, <<3, 4>>}

ScalePool == {1}

Called(op, why) == [op |-> op, raised |-> why, result |-> NoResult]

Rest == UNCHANGED <<nodes, adjacency, session, route, loading>>

\* ---- createGraph.py

GraphAddNode(node_id, attrs) ==
    /\ store.kind = "Graph"
    /\ store' = [store EXCEPT !.graph = Graph_add_node(store.graph, node_id, attrs)]
    /\ last' = Called("Graph.add_node", "")
    /\ Rest

GraphAddEdge(source, target, attrs) ==
    /\ store.kind = "Graph"
    /\ LET added == Graph_add_edge(store.graph, source, target, attrs)
       IN  /\ Cardinality(DOMAIN added.graph.edges) <= MaxStoreEdges
           /\ store' = [store EXCEPT !.graph = added.graph]
           /\ last' = Called("Graph.add_edge", added.raised)
    /\ Rest

\* ---- graph_editor.py

EditorAddNode(node_id, attrs) ==
    /\ store.kind = "GraphData"
    /\ store' = [store EXCEPT !.graph = GraphData_add_node(store.graph, node_id, attrs)]
    /\ last' = Called("GraphData.add_node", "")
    /\ Rest

EditorRemoveNode(node_id) ==
    /\ store.kind = "GraphData"
    /\ store' = [store EXCEPT !.graph = GraphData_remove_node(store.graph, node_id)]
    /\ last' = Called("GraphData.remove_node", "")
    /\ Rest

EditorUpsertEdge(a, b, attrs) ==
    /\ store.kind = "GraphData"
    /\ LET upserted == GraphData_upsert_edge(store.graph, a, b, attrs)
       IN  /\ Len(upserted.edges) <= MaxStoreEdges
           /\ store' = [store EXCEPT !.graph = upserted]
    /\ last' = Called("GraphData.upsert_edge", "")
    /\ Rest

EditorRemoveEdge(a, b) ==
    /\ store.kind = "GraphData"
    /\ store' = [store EXCEPT !.graph = GraphData_remove_edge(store.graph, a, b)]
    /\ last' = Called("GraphData.remove_edge", "")
    /\ Rest

\* ---- map_graph_builder.py

BuilderAddNode(node_id, pos) ==
    /\ store.kind = "GraphState"
    /\ store' = [store EXCEPT !.graph =
                    GraphState_add_node(store.graph, node_id, pos[1], pos[2])]
    /\ last' = Called("GraphState.add_node", "")
    /\ Rest

BuilderRemoveNode(node_id) ==
    /\ store.kind = "GraphState"
    /\ store' = [store EXCEPT !.graph = GraphState_remove_node(store.graph, node_id)]
    /\ last' = Called("GraphState.remove_node", "")
    /\ Rest

BuilderUpsertEdge(a, b) ==
    /\ store.kind = "GraphState"
    /\ LET upserted == GraphState_upsert_edge(store.graph, a, b)
       IN  /\ Cardinality(DOMAIN upserted.graph.edges) <= MaxStoreEdges
           /\ store' = [store EXCEPT !.graph = upserted.graph]
           /\ last' = Called("GraphState.upsert_edge", upserted.raised)
    /\ Rest

\* Each tool starts from the store its loader builds from a document.  A
\* document Graph.from_dict rejects leaves no Graph to edit; the editor starts
\* from GraphData.empty() when load raises, the store of the empty document.
StoreInit ==
    /\ SessionInit
    /\ nodes = {}
    /\ adjacency = EmptyAdjacency
    /\ route = [called |-> FALSE, start |-> None, dest |-> None]
    /\ loading = NoLoading
    /\ \E data \in StoreDocuments :
           \/ /\ Graph_from_dict(data).raised = ""
              /\ store = [kind |-> "Graph", graph |-> Graph_from_dict(data).graph]
           \/ /\ GraphData_load(data).raised = ""
              /\ store = [kind |-> "GraphData", graph |-> GraphData_load(data).graph]
           \/ \E scale \in ScalePool :
                  store = [kind |-> "GraphState",
                           graph |-> GraphState_from_json(data, scale).graph]

StoreNext ==
    \/ \E node_id \in StoreIds, attrs \in NodeAttrPool : GraphAddNode(node_id, attrs)
    \/ \E ends \in EdgePairPool, attrs \in EdgeAttrPool :
           GraphAddEdge(ends[1], ends[2], attrs)
    \/ \E node_id \in StoreIds, attrs \in NodeAttrPool : EditorAddNode(node_id, attrs)
    \/ \E node_id \in StoreIds : EditorRemoveNode(node_id)
    \/ \E ends \in EdgePairPool, attrs \in EdgeAttrPool :
           EditorUpsertEdge(ends[1], ends[2], attrs)
    \/ \E ends \in EdgePairPool : EditorRemoveEdge(ends[1], ends[2])
    \/ \E node_id \in StoreIds, pos \in PositionPool : BuilderAddNode(node_id, pos)
    \/ \E node_id \in StoreIds : BuilderRemoveNode(node_id)
    \/ \E ends \in EdgePairPool : BuilderUpsertEdge(ends[1], ends[2])

StoreSpec == StoreInit /\ [][StoreNext]_vars

-----------------------------------------------------------------------------
(* The loaders: each applied once to a document *)

Loaders ==
    {"Graph.from_dict", "GraphData.load", "GraphState.from_json",
     "prepare_graph", "build_graph"}

\* What a loader makes of a document: the error it raises, or the node
\* collection and the edges (or adjacency view) it builds.
Load(loader, data) ==
    IF loader = "Graph.from_dict" THEN Graph_from_dict(data)
    ELSE IF loader = "GraphData.load" THEN GraphData_load(data)
    ELSE IF loader = "GraphState.from_json" THEN GraphState_from_json(data, 1)
    ELSE IF loader = "build_graph" THEN build_graph(data)
    ELSE LET g == prepare_graph(data)
         IN  [raised |-> IF g.raised = "" THEN "" ELSE "MalformedEdge",
              graph |-> [nodes |-> g.nodes, adjacency |-> g.adjacency]]

LoadCall ==
    /\ ~loading.called
    /\ loading' = [loading EXCEPT !.called = TRUE,
                                  !.result = Load(loading.loader, loading.data)]
    /\ UNCHANGED <<nodes, adjacency, session, last, route, store>>

LoadInit ==
    /\ SessionInit
    /\ nodes = {}
    /\ adjacency = EmptyAdjacency
    /\ route = [called |-> FALSE, start |-> None, dest |-> None]
    /\ store = NoStore
    /\ \E loader \in Loaders, data \in StoreDocuments :
           loading = [loader |-> loader, data |-> data, called |-> FALSE,
                      result |-> [raised |-> "", graph |-> EmptyGraph]]

LoadNext == LoadCall

LoadSpec == LoadInit /\ [][LoadNext]_vars

-----------------------------------------------------------------------------
(* Difficulty: one edge A-B, routed over and travelled along *)

\* {} or {key: v} for one of the values
Optional(key, values) == {EmptyDict} \cup {[k \in {key} |-> v] : v \in values}

\* The raw edge A-B of 100 km: with each route type of the table, one the
\* table does not hold and none; and with a difficulty_factor, a
\* difficulty_modifier or both, on an edge without a route type and on a
\* mountain pass.
DifficultyEdges ==
    LET edge == [nodes |-> <<"A", "B">>, approx_distance_km |-> Km(100)]
        explicit == {Update(factor, modifier) :
                        factor \in Optional("difficulty_factor", {Num(50), Num(200)}),
                        modifier \in Optional("difficulty_modifier", {Num(120)})}
    IN  {Update(edge, route_type) :
            route_type \in Optional("route_type",
                                    {"road", "trail", "mountain_pass", "shore", "sea",
                                     "swamp"})}
        \cup {Update(Update(edge, difficulty), route_type) :
                 difficulty \in explicit \ {EmptyDict},
                 route_type \in Optional("route_type", {"mountain_pass"})}

DifficultyDocuments ==
    {[nodes |-> NodeList(<<"A", "B", "C">>), edges |-> <<edge>>] :
        edge \in DifficultyEdges}

DifficultyInit ==
    /\ GraphInit(DifficultyDocuments)
    /\ SessionInit
    /\ StoreIdle
    /\ route = [called |-> FALSE, start |-> "A", dest |-> "B"]

DifficultyNext == ShortestPathCall \/ ResetTrip \/ StartLeg \/ TravelDay

DifficultySpec == DifficultyInit /\ [][DifficultyNext]_vars

-----------------------------------------------------------------------------

(* Journey: a trip over a few graphs, with the routes on offer asked for *)

\* a call of available_routes: the list it returns
AvailableRoutes ==
    /\ last' = [op |-> "available_routes", raised |-> "",
                result |-> [routes |-> available_routes]]
    /\ adjacency' = AfterRoutes
    /\ UNCHANGED <<nodes, session, route, store, loading>>

\* Edge lists of the journey documents, by index into TripEdges: the road
\* A-B and the trail B-C; two edges A-B, in both orders; the edge to the
\* undeclared D with the trail B-C; and no edge at all.
JourneyChoices == {<<1, 2>>, <<1, 6>>, <<6, 1>>, <<5, 2>>, <<>>}

JourneyDocuments ==
    {Document(nl, TripEdges, c) : nl \in TripNodeLists, c \in JourneyChoices}

JourneyInit ==
    /\ GraphInit(JourneyDocuments)
    /\ SessionInit
    /\ StoreIdle
    /\ route = [called |-> FALSE, start |-> None, dest |-> None]

JourneyNext == ResetTrip \/ StartLeg \/ TravelDay \/ AvailableRoutes

JourneySpec == JourneyInit /\ [][JourneyNext]_vars

-----------------------------------------------------------------------------

(* Routing: the terms of the claims *)

\* distance x difficulty of one adjacency entry
EntryWeight(attrs) == attrs["approx_distance_km"] * difficulty_for_edge(attrs)

NonNegativeWeights(adj) ==
    \A k \in DOMAIN adj : \A i \in 1..Len(adj[k]) :
        /\ ~difficulty_raises(adj[k][i][2])
        /\ EntryWeight(adj[k][i][2]) >= 0

\* The nodes one adjacency entry away from a node of found.
Successors(adj, found) ==
    UNION {{adj[k][i][1] : i \in 1..Len(adj[k])} : k \in found \cap DOMAIN adj}

RECURSIVE ReachSet(_, _)
ReachSet(adj, found) ==
    LET next == found \cup Successors(adj, found)
    IN  IF next = found THEN found ELSE ReachSet(adj, next)

Reachable(adj, a, b) == b \in ReachSet(adj, {a})

Least(costs) == CHOOSE c \in costs : \A d \in costs : c <= d

\* The least sum of distance x difficulty over the simple paths from cur to
\* dest that avoid the nodes of seen; -1 when there is none.  With weights >= 0
\* a path that repeats a node costs no less than the simple path inside it.
RECURSIVE LeastCost(_, _, _, _)
LeastCost(adj, cur, dest, seen) ==
    IF cur = dest THEN 0
    ELSE LET entries == Neighbours(adj, cur)
             steps == {i \in 1..Len(entries) : entries[i][1] \notin seen \cup {cur}}
             onward == [i \in steps |->
                           LeastCost(adj, entries[i][1], dest, seen \cup {cur})]
             totals == {EntryWeight(entries[i][2]) + onward[i] :
                           i \in {j \in steps : onward[j] # -1}}
         IN  IF totals = {} THEN -1 ELSE Least(totals)

GraphOf(pool, choice) ==
    prepare_graph(Document(NodeList(<<"A", "B", "C", "D">>), pool, choice)).adjacency

\* A-B-C-D with distances 10, 10, 10 at difficulty 1.0
LineGraph == GraphOf(RouteEdges, <<1, 2, 3>>)

\* the same with B-C at difficulty_factor 0.5
LineGraphEasyBC == GraphOf(RouteEdges, <<1, 5, 3>>)

RouteFrom(a, b) == route.called /\ route.start = a /\ route.dest = b

\* C1: on a graph whose weights are all >= 0, for start # dest with dest
\* reachable from start, shortest_path returns as weighted cost the least sum
\* of distance x difficulty over the paths from start to dest; on the line
\* graph A-B-C-D it returns [A,B,C,D], distance 30 and weighted cost 30.
C1_WeightedCostIsMinimal ==
    /\ ( /\ route.called
         /\ NonNegativeWeights(adjacency)
         /\ Truthy(route.start)
         /\ route.start # route.dest
         /\ Reachable(adjacency, route.start, route.dest) )
       => /\ route.result.raised = ""
          /\ route.result.path # <<>>
          /\ route.result.weighted = LeastCost(adjacency, route.start, route.dest, {})
    /\ (RouteFrom("A", "D") /\ adjacency = LineGraph)
       => route.result = Returned(<<"A", "B", "C", "D">>, Km(30), Km(30) * 100)

\* A query that the search has to improve on: A-C costs 30 directly and 20
\* over B.
C1_Witness ==
    /\ RouteFrom("A", "C")
    /\ adjacency = GraphOf(RouteEdges, <<4, 2, 1>>)
    /\ route.result.path = <<"A", "B", "C">>
    /\ route.result.weighted = Km(20) * 100

\* The sums (weighted, physical) that some choice of one adjacency entry per
\* step of the path gives, from step i on.
RECURSIVE PathSums(_, _, _)
PathSums(adj, path, i) ==
    IF i >= Len(path) THEN {<<0, 0>>}
    ELSE LET entries == Neighbours(adj, path[i])
             joining == {j \in 1..Len(entries) :
                            /\ entries[j][1] = path[i + 1]
                            /\ ~difficulty_raises(entries[j][2])}
         IN  {<<EntryWeight(entries[j][2]) + rest[1],
                entries[j][2]["approx_distance_km"] + rest[2]>> :
                  j \in joining, rest \in PathSums(adj, path, i + 1)}

\* C2: the physical distance shortest_path returns is the plain sum of
\* approx_distance_km over the very edges of the path whose distance x
\* difficulty sums to the returned weighted cost; on the line graph with B-C
\* at difficulty 0.5 it is 30, with weighted cost 25.
C2_PhysicalDistanceOfPathEdges ==
    /\ (route.called /\ route.result.raised = "" /\ route.result.path # <<>>)
       => <<route.result.weighted, route.result.total_distance>>
              \in PathSums(adjacency, route.result.path, 1)
    /\ (RouteFrom("A", "D") /\ adjacency = LineGraphEasyBC)
       => /\ route.result.total_distance = Km(30)
          /\ route.result.weighted = Km(25) * 100

\* C3: shortest_path returns the empty path with distance 0 and cost 0, and
\* does not raise, when start or dest is unset or no node of the graph, and
\* when dest is not reachable from start (start = dest is the case of C4).
C3_EmptyResultWithoutRaising ==
    ( /\ route.called
      /\ route.start # route.dest
      /\ \/ ~Truthy(route.start)
         \/ ~Truthy(route.dest)
         \/ route.start \notin nodes
         \/ route.dest \notin nodes
         \/ ~Reachable(adjacency, route.start, route.dest) )
    => route.result = NoPath

\* C4: for every node A of the graph shortest_path(A, A) returns [A] with
\* distance 0 and cost 0, whatever edges are incident to A.
C4_SameNode ==
    (route.called /\ route.start = route.dest /\ route.start \in nodes)
    => route.result = Returned(<<route.start>>, 0, 0)

\* A is asked for itself while it has a zero-length self-loop and an edge whose
\* difficulty is no number.
C4_Witness ==
    /\ RouteFrom("A", "A")
    /\ adjacency = GraphOf(RouteEdges, <<7, 9>>)
    /\ route.result.path = <<"A">>

-----------------------------------------------------------------------------
(* Trip simulator: the terms of the claims *)

Succeeded(op) == last'.op = op /\ last'.raised = ""

\* an adjacency entry of the current city leads to n
Adjacent(n) ==
    /\ Truthy(current_city)
    /\ \E i \in 1..Len(Neighbours(adjacency, current_city)) :
           Neighbours(adjacency, current_city)[i][1] = n

LegWithinDistance(leg) ==
    0 <= leg.traveled_km /\ leg.traveled_km <= leg.distance_km

\* C5: an active leg has 0 <= traveled_km <= distance_km in every state, and
\* a travel_day call covers min(speed x hours x difficulty, remaining leg
\* distance); 100 hours on foot on a 50 km leg cover 50 and complete the leg.
C5_LegWithinDistanceAndClamp ==
    [][ /\ HasLeg' => LegWithinDistance(active_leg')
        /\ \A mode \in ModeInputs, hours \in HourInputs :
               (travel_day(mode, hours) /\ Succeeded("travel_day"))
               => /\ last'.result.traveled_km =
                         Min(speed_for_mode(mode) * hours
                                 * difficulty_for_edge(active_leg.attrs),
                             active_leg.distance_km - active_leg.traveled_km)
                  /\ (mode = "foot" /\ hours = 100 /\ active_leg.traveled_km = 0
                         /\ active_leg.distance_km = Km(50)
                         /\ difficulty_for_edge(active_leg.attrs) = 100)
                     => /\ last'.result.traveled_km = Km(50)
                        /\ ~HasLeg'
                        /\ current_city' = active_leg.destination ]_vars

\* C6: a successful travel_day adds exactly 1 to day, whatever distance it
\* covers; start_leg leaves day alone; only reset_trip takes day back to 0.
C6_DayCountsTravelDays ==
    [][ /\ Succeeded("travel_day") => day' = day + 1
        /\ last'.op = "start_leg" => day' = day
        /\ day' < day => (Succeeded("reset_trip") /\ day' = 0) ]_vars

\* The second day of a leg has been travelled without covering any distance.
C6_Witness ==
    /\ last.op = "travel_day"
    /\ last.raised = ""
    /\ last.result.traveled_km = 0
    /\ day = 2

\* C7: start_leg fails with AlreadyTraveling whenever a leg is active, before
\* any other check, with SameLocation when the destination is the current
\* city, and with NoSuchRoute when the destination is not adjacent to it; a
\* start_leg that fails leaves the session as it was.
C7_StartLegFailures ==
    [][ \A destination \in LegInputs :
            start_leg(destination)
            => /\ HasLeg => last'.raised = "AlreadyTraveling"
               /\ (~HasLeg /\ destination = current_city)
                  => last'.raised = "SameLocation"
               /\ (~HasLeg /\ destination # current_city /\ ~Adjacent(destination))
                  => last'.raised = "NoSuchRoute"
               /\ last'.raised # "" => UNCHANGED session ]_vars

\* start_leg has been refused in the middle of a leg.
C7_Witness ==
    /\ last.op = "start_leg"
    /\ last.raised = "AlreadyTraveling"
    /\ HasLeg
    /\ active_leg.traveled_km > 0

\* C8: travel_day fails with NoActiveLeg when no leg is active, with
\* NonPositiveHours when hours <= 0, and a travel_day that fails leaves the
\* session as it was.
C8_TravelDayFailures ==
    [][ \A mode \in ModeInputs, hours \in HourInputs :
            travel_day(mode, hours)
            => /\ ~HasLeg => last'.raised = "NoActiveLeg"
               /\ (HasLeg /\ hours <= 0) => last'.raised = "NonPositiveHours"
               /\ last'.raised # "" => UNCHANGED session ]_vars

\* C9: reset_trip fails with UnknownNode when start or destination is no node
\* of the node collection, and the failed call leaves the session as it was.
C9_ResetUnknownNode ==
    [][ \A start \in ResetInputs, destination \in ResetInputs :
            reset_trip(start, destination)
            => ((start \notin nodes \/ destination \notin nodes)
                => /\ last'.raised = "UnknownNode"
                   /\ UNCHANGED session) ]_vars

\* reset_trip has been refused in the middle of a leg.
C9_Witness ==
    /\ last.op = "reset_trip"
    /\ last.raised = "UnknownNode"
    /\ HasLeg
    /\ active_leg.traveled_km > 0
    /\ day > 0

\* C10: after a successful reset_trip(start, dest), from any state,
\* current_city = start_city = start, destination_city = dest, no leg is
\* active, day = 0, the total distance is 0 and the log has one entry.
C10_ResetIsHard ==
    [][ \A start \in ResetInputs, destination \in ResetInputs :
            (reset_trip(start, destination) /\ Succeeded("reset_trip"))
            => /\ current_city' = start
               /\ start_city' = start
               /\ destination_city' = destination
               /\ ~HasLeg'
               /\ day' = 0
               /\ total_traveled_km' = 0
               /\ Len(log') = 1 ]_vars

\* A trip has begun at B for A.
C10_Witness ==
    /\ last.op = "reset_trip"
    /\ last.raised = ""
    /\ current_city = "B"
    /\ destination_city = "A"
    /\ Len(log) = 1

\* C11: a successful travel_day completes the leg exactly when the leg's
\* traveled distance reaches its distance: then current_city is the leg's
\* destination, no leg is active and the result has remaining_leg_km = 0 and
\* reached_destination; otherwise current_city stays at the leg's origin, the
\* leg stays active and the result has reached_destination false and
\* remaining_leg_km = distance - traveled > 0.
C11_LegCompletesWhenDistanceReached ==
    [][ \A mode \in ModeInputs, hours \in HourInputs :
            (travel_day(mode, hours) /\ Succeeded("travel_day"))
            => LET traveled == active_leg.traveled_km + last'.result.traveled_km
               IN  IF traveled >= active_leg.distance_km
                   THEN /\ current_city' = active_leg.destination
                        /\ ~HasLeg'
                        /\ last'.result.remaining_leg_km = 0
                        /\ last'.result.reached_destination
                        /\ last'.result.at_city = active_leg.destination
                   ELSE /\ current_city' = active_leg.origin
                        /\ HasLeg'
                        /\ active_leg' = [active_leg EXCEPT !.traveled_km = traveled]
                        /\ ~last'.result.reached_destination
                        /\ last'.result.remaining_leg_km
                               = active_leg.distance_km - traveled
                        /\ last'.result.remaining_leg_km > 0 ]_vars

\* A leg has been completed on its second day: the first day left it active.
C11_Witness ==
    /\ last.op = "travel_day"
    /\ last.raised = ""
    /\ last.result.reached_destination
    /\ last.result.traveled_km > 0
    /\ last.result.day = 2
    /\ ~HasLeg
    /\ Len(log) = 5

-----------------------------------------------------------------------------
(* The editing tools: the terms of the claims *)

IsGraph == store.kind = "Graph"

IsGraphData == store.kind = "GraphData"

IsGraphState == store.kind = "GraphState"

\* the unordered pair of an edge key
Ends(key) == {key[1], key[2]}

\* C12: Graph.add_edge(A, B, attrs) and Graph.add_edge(B, A, attrs) leave the
\* same graph: the same edge key, which is the sorted pair, with the same
\* "nodes" field and attributes; so no two stored edges join the same
\* unordered pair of nodes.
C12_AddEdgeIgnoresEndpointOrder ==
    [][ \A ends \in EdgePairPool, attrs \in EdgeAttrPool :
            (GraphAddEdge(ends[1], ends[2], attrs) /\ last'.raised = "")
            => /\ store'.graph
                      = Graph_add_edge(store.graph, ends[2], ends[1], attrs).graph
               /\ SortedPair(ends[1], ends[2]) \in DOMAIN store'.graph.edges
               /\ store'.graph.edges[SortedPair(ends[1], ends[2])]["nodes"]
                      = SortedPair(ends[1], ends[2])
               /\ \A k \in DOMAIN store'.graph.edges, l \in DOMAIN store'.graph.edges :
                      Ends(k) = Ends(l) => k = l ]_vars

\* add_edge has stored the pair it was given as (C, B) under (B, C), next to
\* another edge.
C12_Witness ==
    /\ IsGraph
    /\ last.op = "Graph.add_edge"
    /\ last.raised = ""
    /\ DOMAIN store.graph.edges = {<<"A", "B">>, <<"B", "C">>}
    /\ store.graph.edges[<<"B", "C">>]["route_type"] = "trail"

\* result holds every key of earlier that later does not set, with its
\* value, and every key of later with later's value, and nothing else
Merged(earlier, later, result) ==
    /\ DOMAIN result = DOMAIN earlier \cup DOMAIN later
    /\ \A k \in DOMAIN later : result[k] = later[k]
    /\ \A k \in DOMAIN earlier \ DOMAIN later : result[k] = earlier[k]

\* the edges of an edge list stored for the unordered pair of (a, b)
EdgesFor(edges, a, b) ==
    {i \in 1..Len(edges) : Ends(edges[i]["nodes"]) = {a, b}}

\* raw edges i < j of a document are the only two that give the same pair
TwiceInDocument(data, i, j) ==
    /\ i < j
    /\ ~EdgeMalformed(data.edges[i])
    /\ ~EdgeMalformed(data.edges[j])
    /\ Ends(EdgeEnds(data.edges[i])) = Ends(EdgeEnds(data.edges[j]))
    /\ \A k \in DOMAIN data.edges \ {i, j} :
           EdgeMalformed(data.edges[k])
           \/ Ends(EdgeEnds(data.edges[k])) # Ends(EdgeEnds(data.edges[i]))

\* C13: writing an edge for a pair that has one (Graph.add_edge,
\* GraphData.upsert_edge, or a second entry of the pair in the document
\* GraphData.load reads) leaves one edge for the pair, whose attributes are
\* the earlier ones merged with the later ones: keys the later write does not
\* set are kept, on shared keys the later value wins.
C13_ReAddingAnEdgeMerges ==
    [][ /\ \A ends \in EdgePairPool, attrs \in EdgeAttrPool :
               LET key == SortedPair(ends[1], ends[2])
               IN  /\ ( /\ GraphAddEdge(ends[1], ends[2], attrs)
                        /\ key \in DOMAIN store.graph.edges )
                      => /\ DOMAIN store'.graph.edges = DOMAIN store.graph.edges
                         /\ Merged(store.graph.edges[key], EdgePayload(key, attrs),
                                   store'.graph.edges[key])
                   /\ ( /\ EditorUpsertEdge(ends[1], ends[2], attrs)
                        /\ EdgesFor(store.graph.edges, ends[1], ends[2]) # {} )
                      => /\ Len(store'.graph.edges) = Len(store.graph.edges)
                         /\ \A i \in EdgesFor(store.graph.edges, ends[1], ends[2]) :
                                Merged(store.graph.edges[i], EditorEdge(key, attrs),
                                       store'.graph.edges[i])
        /\ \A data \in StoreDocuments :
               LET loaded == GraphData_load(data)
               IN  \A i \in DOMAIN data.edges, j \in DOMAIN data.edges :
                       (loaded.raised = "" /\ TwiceInDocument(data, i, j))
                       => LET ends == EdgeEnds(data.edges[i])
                              key == SortedPair(ends[1], ends[2])
                              found == EdgesFor(loaded.graph.edges, ends[1], ends[2])
                          IN  /\ Cardinality(found) = 1
                              /\ \A n \in found :
                                     Merged(EditorEdge(key, Without(data.edges[i], EndpointKeys)),
                                            EditorEdge(key, Without(data.edges[j], EndpointKeys)),
                                            loaded.graph.edges[n]) ]_vars

\* C14: writing a Graph with to_dict and reading the document back with
\* from_dict gives the same node ids, the same edge keys and the same
\* attributes for each of them.
C14_ToDictFromDictRoundTrip ==
    IsGraph =>
        LET read == Graph_from_dict(Graph_to_dict(store.graph))
        IN  /\ read.raised = ""
            /\ DOMAIN read.graph.nodes = DOMAIN store.graph.nodes
            /\ DOMAIN read.graph.edges = DOMAIN store.graph.edges
            /\ read.graph = store.graph

\* a dict without the entry of key k
Except(d, k) == [n \in DOMAIN d \ {k} |-> d[n]]

\* C15: after remove_node(X), of GraphData and of GraphState, X is no node and
\* no stored edge has X as an endpoint, while every other node and every edge
\* between other nodes is as before; when X was no node, the nodes are as
\* before.
C15_RemoveNodeRemovesItsEdges ==
    [][ \A X \in StoreIds :
            /\ EditorRemoveNode(X)
               => /\ X \notin DOMAIN store'.graph.nodes
                  /\ \A i \in DOMAIN store'.graph.edges :
                         X \notin Ends(store'.graph.edges[i]["nodes"])
                  /\ store'.graph.nodes = Except(store.graph.nodes, X)
                  /\ store'.graph.edges =
                         SelectSeq(store.graph.edges,
                                   LAMBDA e : X \notin Ends(e["nodes"]))
                  /\ X \notin DOMAIN store.graph.nodes
                     => store'.graph.nodes = store.graph.nodes
            /\ BuilderRemoveNode(X)
               => /\ X \notin DOMAIN store'.graph.nodes
                  /\ \A k \in DOMAIN store'.graph.edges : X \notin Ends(k)
                  /\ store'.graph.nodes = Except(store.graph.nodes, X)
                  /\ DOMAIN store'.graph.edges =
                         {k \in DOMAIN store.graph.edges : X \notin Ends(k)}
                  /\ \A k \in DOMAIN store'.graph.edges :
                         store'.graph.edges[k] = store.graph.edges[k]
                  /\ store'.graph.scale = store.graph.scale
                  /\ X \notin DOMAIN store.graph.nodes
                     => store'.graph.nodes = store.graph.nodes ]_vars

\* a node of the editor's store was removed and an edge between the others
\* is still stored
C15_Witness ==
    /\ IsGraphData
    /\ last.op = "GraphData.remove_node"
    /\ DOMAIN store.graph.nodes = {"B", "C"}
    /\ Len(store.graph.edges) = 1
    /\ Ends(store.graph.edges[1]["nodes"]) = {"B", "C"}

\* C16: Graph.add_edge fails with MissingEndpoint exactly when one of its
\* endpoints is no node, and the failed call leaves the nodes and the edges
\* as they were; so both endpoints of every edge a Graph stores are nodes.
C16_AddEdgeNeedsBothEndpoints ==
    /\ [][ \A ends \in EdgePairPool, attrs \in EdgeAttrPool :
               GraphAddEdge(ends[1], ends[2], attrs)
               => /\ last'.raised = "MissingEndpoint"
                     <=> ~({ends[1], ends[2]} \subseteq DOMAIN store.graph.nodes)
                  /\ last'.raised \in {"", "MissingEndpoint"}
                  /\ last'.raised = "MissingEndpoint" => store' = store ]_vars
    /\ [](IsGraph =>
              \A k \in DOMAIN store.graph.edges :
                  /\ Ends(k) \subseteq DOMAIN store.graph.nodes
                  /\ Ends(store.graph.edges[k]["nodes"]) \subseteq DOMAIN store.graph.nodes)

\* add_edge has just been refused on a graph that stores an edge
C16_Witness ==
    /\ IsGraph
    /\ last.op = "Graph.add_edge"
    /\ last.raised = "MissingEndpoint"
    /\ DOMAIN store.graph.nodes = {"A", "B"}
    /\ DOMAIN store.graph.edges = {<<"A", "B">>}

\* C17: in the store a loader has built, and after every later add, upsert
\* and remove, both endpoints of every stored edge are keys of the store's
\* node collection.
C17_LoadedEndpointsAreNodes ==
    /\ IsGraph => \A k \in DOMAIN store.graph.edges :
                      Ends(k) \subseteq DOMAIN store.graph.nodes
    /\ IsGraphData => \A i \in DOMAIN store.graph.edges :
                          Ends(store.graph.edges[i]["nodes"]) \subseteq DOMAIN store.graph.nodes
    /\ IsGraphState => \A k \in DOMAIN store.graph.edges :
                           Ends(k) \subseteq DOMAIN store.graph.nodes

-----------------------------------------------------------------------------
(* The loaders: the terms of the claims *)

\* the same raw edge with its endpoints written in the other form
OtherForm(raw_edge) ==
    IF HasPair(raw_edge)
    THEN Update(Without(raw_edge, EndpointKeys),
                [source |-> raw_edge["nodes"][1], target |-> raw_edge["nodes"][2]])
    ELSE IF HasSourceTarget(raw_edge)
    THEN Update(Without(raw_edge, EndpointKeys),
                [nodes |-> <<raw_edge["source"], raw_edge["target"]>>])
    ELSE raw_edge

InOtherForm(data) ==
    [data EXCEPT !.edges = [i \in DOMAIN data.edges |-> OtherForm(data.edges[i])]]

\* no raw edge before edges[i] stops a loader
FirstToFail(data, i) ==
    \A j \in 1..(i - 1) :
        /\ ~EdgeMalformed(data.edges[j])
        /\ Ends(EdgeEnds(data.edges[j])) \subseteq {data.nodes[n]["id"] : n \in DOMAIN data.nodes}

\* C18: a loader builds the same graph from a document whether each edge
\* names its endpoints by a two-element "nodes" list or by "source" and
\* "target", and it fails with MalformedEdge on the first edge that has
\* neither.
C18_BothEdgeFormsLoadAlike ==
    loading.called =>
        /\ Load(loading.loader, InOtherForm(loading.data)) = loading.result
        /\ \A i \in DOMAIN loading.data.edges :
               (EdgeMalformed(loading.data.edges[i]) /\ FirstToFail(loading.data, i))
               => loading.result.raised = "MalformedEdge"

\* C19: GraphData.remove_edge(a, b) removes the edge stored for the unordered
\* pair and nothing else, as remove_edge(b, a) does; a second call, or a call
\* for a pair without an edge, changes nothing.
C19_RemoveEdgeByPair ==
    [][ \A ends \in EdgePairPool :
            EditorRemoveEdge(ends[1], ends[2])
            => /\ EdgesFor(store'.graph.edges, ends[1], ends[2]) = {}
               /\ store'.graph.edges =
                      SelectSeq(store.graph.edges,
                                LAMBDA e : Ends(e["nodes"]) # {ends[1], ends[2]})
               /\ store'.graph.nodes = store.graph.nodes
               /\ store'.graph = GraphData_remove_edge(store.graph, ends[2], ends[1])
               /\ GraphData_remove_edge(store'.graph, ends[1], ends[2]) = store'.graph
               /\ EdgesFor(store.graph.edges, ends[1], ends[2]) = {}
                  => store' = store ]_vars

\* remove_edge has removed one of two stored edges
C19_Witness ==
    /\ IsGraphData
    /\ last.op = "GraphData.remove_edge"
    /\ Len(store.graph.edges) = 1
    /\ Ends(store.graph.edges[1]["nodes"]) = {"B", "C"}
    /\ DOMAIN store.graph.nodes = {"A", "B"}

\* C20: adding a node whose id is already stored, with Graph.add_node or
\* GraphData.add_node, never fails and merges the attributes: the new keys
\* overwrite, the other stored keys are kept, and no node is added or lost.
C20_AddNodeMergesAttributes ==
    [][ \A node_id \in StoreIds, attrs \in NodeAttrPool :
            /\ (GraphAddNode(node_id, attrs) /\ node_id \in DOMAIN store.graph.nodes)
               => /\ last'.raised = ""
                  /\ DOMAIN store'.graph.nodes = DOMAIN store.graph.nodes
                  /\ Merged(store.graph.nodes[node_id], NodePayload(node_id, attrs),
                            store'.graph.nodes[node_id])
            /\ (EditorAddNode(node_id, attrs) /\ node_id \in DOMAIN store.graph.nodes)
               => /\ last'.raised = ""
                  /\ DOMAIN store'.graph.nodes = DOMAIN store.graph.nodes
                  /\ Merged(store.graph.nodes[node_id], attrs,
                            store'.graph.nodes[node_id]) ]_vars

-----------------------------------------------------------------------------
(* Difficulty: the terms of the claims *)

\* the difficulty of an attribute bag, in hundredths
ResolvedDifficulty(attrs) ==
    IF "difficulty_factor" \in DOMAIN attrs THEN attrs["difficulty_factor"].num
    ELSE IF "difficulty_modifier" \in DOMAIN attrs THEN attrs["difficulty_modifier"].num
    ELSE IF "route_type" \notin DOMAIN attrs THEN 100
    ELSE CASE attrs["route_type"] = "road" -> 100
           [] attrs["route_type"] = "trail" -> 85
           [] attrs["route_type"] = "mountain_pass" -> 70
           [] attrs["route_type"] = "shore" -> 100
           [] attrs["route_type"] = "sea" -> 100
           [] OTHER -> 100

\* the attribute bag of the one edge of the graph
TheEdge == adjacency["A"][1][2]

\* C21: the difficulty of an edge is its difficulty_factor if it has one,
\* else its difficulty_modifier if it has one, else the table entry of its
\* route type (road 1.0, trail 0.85, mountain_pass 0.7, shore 1.0, sea 1.0),
\* else 1.0; the weighted cost shortest_path returns for the edge and the
\* distance travel_day covers on it are both computed with that difficulty.
C21_DifficultyResolution ==
    [][ /\ ShortestPathCall
           => /\ route'.result.path = <<"A", "B">>
              /\ route'.result.weighted
                     = TheEdge["approx_distance_km"] * ResolvedDifficulty(TheEdge)
        /\ \A mode \in ModeInputs, hours \in HourInputs :
               (travel_day(mode, hours) /\ Succeeded("travel_day"))
               => /\ active_leg.attrs = TheEdge
                  /\ last'.result.traveled_km =
                         Min(speed_for_mode(mode) * hours * ResolvedDifficulty(TheEdge),
                             active_leg.distance_km - active_leg.traveled_km) ]_vars

\* An edge with both a factor and a modifier and a route type of the table
\* has been routed over and travelled along for a day at its factor.
C21_Witness ==
    /\ route.called
    /\ route.result.weighted = Km(100) * 200
    /\ last.op = "travel_day"
    /\ last.raised = ""
    /\ last.result.traveled_km = 45 * 8 * 200
    /\ {"difficulty_modifier", "route_type"} \subseteq DOMAIN TheEdge
    /\ TheEdge["route_type"] = "mountain_pass"

-----------------------------------------------------------------------------
(* Journey: the terms of the claims *)

\* the entries of a list of (neighbour, attributes) pairs
Entries(routes) == {routes[i] : i \in 1..Len(routes)}

\* the (neighbour, attributes) pairs of the edges incident to city: the
\* undirected view lists every edge at both of its endpoints
IncidentPairs(city) ==
    UNION {{<<n, e[2]>> : e \in {x \in Entries(adjacency[n]) : x[1] = city}} :
              n \in DOMAIN adjacency}

\* C22: available_routes returns the adjacency list of current_city, whose
\* entries are the (neighbour, attributes) pairs of the edges incident to it;
\* it returns the empty list, and raises nothing, when no current city is set
\* and when the current city has no adjacency entry; it changes nothing.
C22_AvailableRoutes ==
    [][ AvailableRoutes
        => LET routes == last'.result.routes
           IN  /\ last'.raised = ""
               /\ UNCHANGED session
               /\ ~Truthy(current_city) => routes = <<>>
               /\ (Truthy(current_city) /\ current_city \notin DOMAIN adjacency)
                  => routes = <<>>
               /\ (Truthy(current_city) /\ current_city \in DOMAIN adjacency)
                  => /\ routes = adjacency[current_city]
                     /\ Entries(routes) = IncidentPairs(current_city) ]_vars

\* the routes have been asked for at a city with two edges to the same
\* neighbour
C22_Witness ==
    /\ last.op = "available_routes"
    /\ current_city = "A"
    /\ Len(last.result.routes) = 2
    /\ last.result.routes[1][1] = "B"
    /\ last.result.routes[2][1] = "B"

-----------------------------------------------------------------------------
(* Routing: termination, neighbour order and the shape of the path *)

\* C23: on every graph the loader builds, for every start and dest, the
\* search loop and the reconstruction loop of shortest_path come to an end
\* within a number of iterations bounded by the size of the graph.
C23_ShortestPathTerminates ==
    route.called => route.result.raised # "Diverges"

\* the same adjacency view with every node's neighbours listed in the
\* opposite order
Reordered(adj) == [k \in DOMAIN adj |-> Reversed(adj[k])]

\* C24: for two adjacency views of the same graph that list the neighbours
\* of each node in a different order, shortest_path(start, dest) returns the
\* same physical distance and the same weighted cost.
C24_NeighbourOrderIrrelevant ==
    route.called =>
        LET other == shortest_path(Reordered(adjacency), route.start, route.dest)
        IN  /\ other.raised = route.result.raised
            /\ other.total_distance = route.result.total_distance
            /\ other.weighted = route.result.weighted

-----------------------------------------------------------------------------
(* The editing tools: what the writers emit *)

\* the edges the writer of the store's tool emits
WrittenEdges ==
    IF IsGraph THEN Graph_to_dict(store.graph).edges
    ELSE IF IsGraphData THEN GraphData_save(store.graph).edges
    ELSE GraphState_to_json(store.graph).edges

\* C25: after any sequence of edits, every edge that Graph.to_dict,
\* GraphData.save or GraphState.to_json writes has a two-element "nodes"
\* list and undirected: true, and no source or target field.
C25_WritersEmitPairForm ==
    \A i \in DOMAIN WrittenEdges :
        LET edge == WrittenEdges[i]
        IN  /\ "nodes" \in DOMAIN edge
            /\ Len(edge["nodes"]) = 2
            /\ "undirected" \in DOMAIN edge
            /\ edge["undirected"] = TRUE
            /\ {"source", "target"} \cap DOMAIN edge = {}

-----------------------------------------------------------------------------
(* Trip simulator: legs, the end of the trip and the log *)

\* C26: a leg is active only while it is unfinished: in every state with an
\* active leg, traveled_km < distance_km.
C26_ActiveLegIsUnfinished ==
    HasLeg => active_leg.traveled_km < active_leg.distance_km

\* C27: a successful start_leg(destination) creates a leg from current_city
\* to the destination with traveled_km = 0 and, as its distance, the
\* approx_distance_km of an edge that joins the two; it appends one entry to
\* the log and leaves current_city, start_city, destination_city, day and the
\* total distance as they were.
C27_StartLegCreatesLeg ==
    [][ \A destination \in LegInputs :
            (start_leg(destination) /\ Succeeded("start_leg"))
            => /\ HasLeg'
               /\ active_leg'.origin = current_city
               /\ active_leg'.destination = destination
               /\ active_leg'.traveled_km = 0
               /\ \E entry \in Entries(Neighbours(adjacency, current_city)) :
                      /\ entry[1] = destination
                      /\ entry[2]["approx_distance_km"] = active_leg'.distance_km
                      /\ entry[2] = active_leg'.attrs
               /\ Len(log') = Len(log) + 1
               /\ SubSeq(log', 1, Len(log)) = log
               /\ UNCHANGED <<current_city, start_city, destination_city, day,
                              total_traveled_km>> ]_vars

\* The second leg of a trip has been started, at B for C, after a day on the
\* road from A.
C27_Witness ==
    /\ last.op = "start_leg"
    /\ last.raised = ""
    /\ HasLeg
    /\ active_leg.origin = "B"
    /\ active_leg.destination = "C"
    /\ active_leg.distance_km = Km(10)
    /\ start_city = "A"
    /\ current_city = "B"
    /\ day = 1
    /\ total_traveled_km = Km(50)

\* the trip from start_city has arrived at destination_city
TripEnded ==
    /\ Truthy(current_city)
    /\ current_city = destination_city
    /\ start_city # destination_city
    /\ ~HasLeg

\* C28: once the trip has arrived at destination_city and no leg is active,
\* start_leg starts no new leg, and current_city, day and the total distance
\* stay as they are until reset_trip is called.
C28_DestinationIsTerminal ==
    [][ TripEnded
        => /\ last'.op = "start_leg" => ~HasLeg'
           /\ last'.op # "reset_trip"
              => UNCHANGED <<current_city, day, total_traveled_km>> ]_vars

\* the log holds every earlier entry, unchanged and in place
LogKept == Len(log') >= Len(log) /\ SubSeq(log', 1, Len(log)) = log

\* C29: between resets the log only grows at its end: a successful start_leg
\* appends one entry, a successful travel_day appends its day entry and, when
\* the leg completes, the arrival entry after it; a call that fails appends
\* nothing; and no call but reset_trip removes or changes an earlier entry.
C29_LogIsAppendOnly ==
    [][ /\ Succeeded("start_leg")
           => /\ Len(log') = Len(log) + 1
              /\ log'[Len(log')].kind = "Departed"
        /\ (Succeeded("travel_day") /\ HasLeg')
           => /\ Len(log') = Len(log) + 1
              /\ log'[Len(log')].kind = "Day"
        /\ (Succeeded("travel_day") /\ ~HasLeg')
           => /\ Len(log') = Len(log) + 2
              /\ log'[Len(log') - 1].kind = "Day"
              /\ log'[Len(log')].kind = "Arrived"
        /\ last'.raised # "" => log' = log
        /\ last'.op = "available_routes" => log' = log
        /\ last'.op # "reset_trip" => LogKept ]_vars

\* A leg has been completed on its second day: the log holds the trip, the
\* departure, the two days and the arrival.
C29_Witness ==
    /\ last.op = "travel_day"
    /\ last.raised = ""
    /\ ~HasLeg
    /\ day = 2
    /\ Len(log) = 5
    /\ log[1].kind = "Trip begins"
    /\ log[2].kind = "Departed"
    /\ log[3].kind = "Day"
    /\ log[4].kind = "Day"
    /\ log[5].kind = "Arrived"

-----------------------------------------------------------------------------
(* Routing: the shape of the returned path *)

\* C30: a non-empty path that shortest_path returns for start # dest begins
\* with start and ends with dest, every two consecutive nodes of it are
\* joined by an entry of the adjacency view, and no node occurs in it twice.
C30_PathIsSimpleAndConnected ==
    ( /\ route.called
      /\ route.result.raised = ""
      /\ route.result.path # <<>>
      /\ route.start # route.dest )
    => LET path == route.result.path
       IN  /\ path[1] = route.start
           /\ path[Len(path)] = route.dest
           /\ \A i \in 1..(Len(path) - 1) :
                  \E entry \in Entries(Neighbours(adjacency, path[i])) :
                      entry[1] = path[i + 1]
           /\ \A i \in 1..Len(path), j \in 1..Len(path) :
                  path[i] = path[j] => i = j

\* the whole line has been walked from D back to A
C30_Witness ==
    /\ RouteFrom("D", "A")
    /\ adjacency = LineGraph
    /\ route.result.path = <<"D", "C", "B", "A">>

-----------------------------------------------------------------------------
(* Routing: symmetry, and the graph as read-only input *)

\* C31: on the undirected view prepare_graph builds, for all nodes a and b,
\* b is reachable from a iff a is reachable from b, and shortest_path(a, b)
\* and shortest_path(b, a) return the same weighted cost, whatever the
\* undirected flags of the edges.
C31_RoutingIsSymmetric ==
    (route.called /\ route.start \in nodes /\ route.dest \in nodes)
    => LET back == shortest_path(adjacency, route.dest, route.start)
       IN  /\ Reachable(adjacency, route.start, route.dest)
                  <=> Reachable(adjacency, route.dest, route.start)
           /\ back.raised = route.result.raised
           /\ (back.path = <<>>) <=> (route.result.path = <<>>)
           /\ back.weighted = route.result.weighted

\* Queries: a trip over the journey graphs, with routes asked for along the
\* way and one shortest_path query, from a node of the graph or from one
\* the graph does not have.
QueryStarts == {"A", "Z"}

QueryChoices == {<<1, 2>>, <<>>}

QueryDocuments ==
    {Document(nl, TripEdges, c) : nl \in TripNodeLists, c \in QueryChoices}

QueryInit ==
    /\ GraphInit(QueryDocuments)
    /\ SessionInit
    /\ StoreIdle
    /\ \E start \in QueryStarts :
           route = [called |-> FALSE, start |-> start, dest |-> "C"]

QueryNext == ShortestPathCall \/ AvailableRoutes \/ ResetTrip \/ StartLeg \/ TravelDay

QuerySpec == QueryInit /\ [][QueryNext]_vars

\* C32: the graph is read-only for the router and the simulator: a call of
\* shortest_path, available_routes, start_leg or travel_day, also one about
\* a node the graph does not have, leaves the node collection and the
\* adjacency view (its keys, every neighbour list, every attribute bag) as
\* they were.
C32_GraphIsReadOnly ==
    [][(ShortestPathCall \/ AvailableRoutes \/ StartLeg \/ TravelDay)
           => (nodes' = nodes /\ adjacency' = adjacency)]_vars

\* routes were asked for in a city with no adjacency entry, and a path from
\* a node the graph does not have
C32_Witness ==
    /\ last.op = "available_routes"
    /\ Truthy(current_city)
    /\ current_city \notin DOMAIN adjacency
    /\ route.called
    /\ route.start \notin nodes
    /\ route.start \notin DOMAIN adjacency

-----------------------------------------------------------------------------
(* One leg travelled to its end: a trip is begun, one leg is started on the
   day of the reset, and from then on nothing but travel_day with positive
   hours is called.  The legs of positive difficulty take at most MaxDay
   days at the slowest pace on offer. *)

\* Edge lists of the leg documents, by index into TripEdges.
LegChoices == {<<1>>, <<2>>, <<3>>, <<4>>, <<6>>, <<1, 2>>}

LegDocuments ==
    {Document(nl, TripEdges, c) : nl \in TripNodeLists, c \in LegChoices}

PositiveHours == {h \in HourInputs : h > 0}

LegReset == start_city = None /\ ResetTrip

LegStart == Truthy(current_city) /\ ~HasLeg /\ day = 0 /\ StartLeg

KeepTravelling ==
    /\ HasLeg
    /\ \E mode \in ModeInputs, hours \in PositiveHours : travel_day(mode, hours)
    /\ UNCHANGED <<store, loading>>

LegInit ==
    /\ GraphInit(LegDocuments)
    /\ SessionInit
    /\ StoreIdle
    /\ route = [called |-> FALSE, start |-> None, dest |-> None]

LegNext == LegReset \/ LegStart \/ KeepTravelling

\* travel_day keeps being called for as long as a leg is active
LegSpec == LegInit /\ [][LegNext]_vars /\ WF_vars(KeepTravelling)

-----------------------------------------------------------------------------
(* Trip simulator: the distance account and the current city *)

RECURSIVE CoveredSum(_, _)
\* the km covered by the day entries of entries[1..n]
CoveredSum(entries, n) ==
    IF n = 0 THEN 0
    ELSE CoveredSum(entries, n - 1)
             + (IF entries[n].kind = "Day" THEN entries[n].covered ELSE 0)

\* the departure an arrival at entries[n] belongs to: the latest before it
DepartureOf(entries, n) ==
    entries[CHOOSE i \in 1..n :
                /\ entries[i].kind = "Departed"
                /\ \A j \in i + 1..n : entries[j].kind # "Departed"]

RECURSIVE CompletedSum(_, _)
\* the distances of the legs that entries[1..n] record as completed
CompletedSum(entries, n) ==
    IF n = 0 THEN 0
    ELSE CompletedSum(entries, n - 1)
             + (IF entries[n].kind = "Arrived"
                THEN DepartureOf(entries, n).distance_km
                ELSE 0)

\* C34: in every reachable state total_traveled_km is the sum of the
\* distances covered by the travel_day calls since the last reset_trip,
\* which is the sum of the distances of the legs completed since then plus
\* the traveled_km of the active leg, if any; and it never decreases between
\* resets.
C34_TotalIsSumOfDays ==
    [][ /\ total_traveled_km' = CoveredSum(log', Len(log'))
        /\ total_traveled_km' = CompletedSum(log', Len(log'))
                                   + (IF HasLeg' THEN active_leg'.traveled_km ELSE 0)
        /\ ~Succeeded("reset_trip") => total_traveled_km' >= total_traveled_km ]_vars

\* C35: in every state reachable after a successful reset_trip, current_city
\* is a node of the graph's node collection: the membership reset_trip checks
\* for the start is kept by every arrival of start_leg and travel_day, for
\* every graph prepare_graph can produce.
C35_CurrentCityIsNode ==
    start_city # None => current_city \in nodes

-----------------------------------------------------------------------------
(* Extension: the sample graph built, built upon again in memory or from
   the file it was saved to, with nodes added by hand in between *)

ExtendIds == {"A", "Rivermeet", "Thornwell"}

ExtendAttrs == {EmptyDict, [kind |-> "city"], [harbour |-> TRUE]}

BuildCalled(op, raised, base) ==
    [op |-> op, raised |-> raised, result |-> NoResult, base |-> base]

\* graph = build_midgard_graph()
BuildFresh ==
    /\ store.kind = "Graph"
    /\ LET built == build_midgard_graph(NoBase)
       IN  /\ store' = [store EXCEPT !.graph = built.graph]
           /\ last' = BuildCalled("build_midgard_graph", built.raised, NoBase)
    /\ Rest

\* graph = build_midgard_graph(graph)
BuildAgain ==
    /\ store.kind = "Graph"
    /\ LET built == build_midgard_graph(Base(store.graph))
       IN  /\ store' = [store EXCEPT !.graph = built.graph]
           /\ last' = BuildCalled("build_midgard_graph", built.raised,
                                  Base(store.graph))
    /\ Rest

\* graph.save(path) and then main with --extend path
ExtendFile ==
    /\ store.kind = "Graph"
    /\ LET built == main_extend(Graph_to_dict(store.graph))
       IN  /\ store' = [store EXCEPT !.graph = built.graph]
           /\ last' = BuildCalled("main --extend", built.raised, Base(store.graph))
    /\ Rest

ExtendAddNode ==
    \E node_id \in ExtendIds, attrs \in ExtendAttrs : GraphAddNode(node_id, attrs)

ExtendInit ==
    /\ SessionInit
    /\ nodes = {}
    /\ adjacency = EmptyAdjacency
    /\ route = [called |-> FALSE, start |-> None, dest |-> None]
    /\ loading = NoLoading
    /\ store = [kind |-> "Graph", graph |-> EmptyGraph]

ExtendNext == BuildFresh \/ BuildAgain \/ ExtendFile \/ ExtendAddNode

ExtendSpec == ExtendInit /\ [][ExtendNext]_vars

\* the fresh build
FreshBuild == build_midgard_graph(NoBase).graph

\* the two declarations of the Rivermeet-Thornwell connection
DeclaredTwice ==
    {i \in 1..Len(MidgardEdges) :
        {MidgardEdges[i].source, MidgardEdges[i].target} = {"Rivermeet", "Thornwell"}}

\* C36: build_midgard_graph is idempotent under extension: applied to its
\* own output, in memory or after the to_dict/from_dict round trip of the
\* --extend path, it yields a graph equal to the fresh build, which has 7
\* nodes and 9 edges, the twice-declared Rivermeet-Thornwell connection being
\* stored once, with the attributes of both declarations.
C36_BuildIsIdempotent ==
    (/\ last.op \in {"build_midgard_graph", "main --extend"}
     /\ last.base = Base(FreshBuild))
    => /\ last.raised = ""
       /\ store.graph = FreshBuild
       /\ Cardinality(DOMAIN store.graph.nodes) = 7
       /\ Cardinality(DOMAIN store.graph.edges) = 9
       /\ {key \in DOMAIN store.graph.edges :
              {key[1], key[2]} = {"Rivermeet", "Thornwell"}}
              = {<<"Rivermeet", "Thornwell">>}
       /\ Cardinality(DeclaredTwice) = 2
       /\ \A i \in DeclaredTwice :
              \A k \in DOMAIN MidgardEdges[i].attrs :
                  /\ k \in DOMAIN store.graph.edges[<<"Rivermeet", "Thornwell">>]
                  /\ store.graph.edges[<<"Rivermeet", "Thornwell">>][k]
                         = MidgardEdges[i].attrs[k]

\* the fresh build was saved and extended from its file
C36_Witness ==
    /\ last.op = "main --extend"
    /\ last.base = Base(FreshBuild)
    /\ store.graph = FreshBuild

====
